---- MODULE Spec2Model ----
(***************************************************************************)
(* Model of the XRootD test orchestration engine (xrootdTesting.py,        *)
(* runner.py, osupload.py): the sequential and the fan-out lifecycle of    *)
(* one test, the container engine state it acts on, and the retry wrapper. *)
(* Strings are sequences of one-character strings.                         *)
(***************************************************************************)
EXTENDS Integers, Sequences, FiniteSets, TLC

VARIABLES
    \* ---- test configuration (immutable after Init) ----
    servers,            \* test_json["servers"]: sequence of [uri, host]
    parallel_repeats,   \* test_config.get("parallel_repeats", 0)
    repeat,             \* --repeat
    opensearch_logger,  \* TRUE iff a metadata sink is configured
    s3_uploader,        \* TRUE iff a log sink is configured
    artefact_paths,     \* TRUE iff artefact paths are declared
    container_suffix,   \* container_suffix argument of run_single_test
    \* ---- container engine ----
    engine,             \* slot -> [st: "absent" | "running" | "stopped",
                        \*          stops, removes: calls issued against it]
    created,            \* slots created by the current iteration/test
    \* ---- controller ----
    pc,                 \* position of the controller thread
    iter,               \* current sequential iteration (1-based)
    attempt,            \* attempt number of the running retry loop (0: none)
    idx,                \* server index of the running launch/cleanup loop
    steps,              \* steps invoked by the current iteration, in order
    error,              \* exception that left run_single_test, or "none"
    launchCalls,        \* invocations of launch_servers that returned
    cleanupCalls,       \* invocations of cleanup_servers
    clientRuns,         \* client containers run to a terminal state (iteration)
    exit_code,          \* exit code of the last client run
    delivered,          \* records handed to the sink's upload_fn (iteration)
    exported,           \* those records, in order (iteration)
    faults,             \* collaborator failures injected so far in this test
    sinkFaults,         \* those of them that were failures of a sink
    \* ---- fan-out ----
    max_workers,        \* size of the ThreadPoolExecutor (0: none created)
    wpc,                \* worker -> position
    wattempt,           \* worker -> attempt number of its retry wrapper
    wname,              \* worker -> client container name
    werr,               \* worker -> exception stored in its future, or "none"
    \* ---- retry wrapper on its own ----
    rScript,            \* outcomes the wrapped operation will have, in order
    rState,             \* "idle" | "calling" | "returned" | "raised"
    rAttempt,           \* attempt number (1-based)
    rCalls,             \* invocations of the wrapped operation
    rSleeps,            \* backoff sleeps performed
    rError,             \* exception that left the wrapper, or "none"
    rLast,              \* outcome of the last invocation, or "none"
    \* ---- folder run ----
    fFiles,             \* sorted(files) of the folder: sequence of file descriptors
    fPos,               \* index of the file the loop is at
    fRan,               \* indices of the files run_single_test was called for
    \* ---- launch_server on its own ----
    lConfig,            \* server["server_config"] of the server dict
    lCalls,             \* calls of launch_server made
    lConflicts,         \* containers.run calls refused because the name exists
    pTimeout,           \* timeout parameter of _wait_for_service
    pReadyAt,           \* second at which the endpoint starts to accept connections
    pNow,               \* seconds since the probe started
    pAttempts,          \* connection attempts of the running or last probe
    \* ---- cleanup_servers on its own ----
    cOps,               \* engine calls of cleanup_servers, in order: [i, op, st]
    cRunning,           \* runner indices whose container was found running
    server_logs_dict,   \* container names the loop recorded a log key for
    \* ---- the container removal steps of one test ----
    rmStep,             \* index of the step of RemovalPlan that is next
    rmCont,             \* "server" | "client" | "probe" -> TRUE iff it exists
    rmAbsentAt,         \* removal sites that met an absent container
    \* ---- throughput extraction ----
    logLines,           \* the lines the client's log text is made of (descriptors)
    transfer_speed,     \* result of extract_transfer_speed, or Pending
    \* ---- path substitution ----
    sValue,             \* the configuration tree given to substitute_path
    test_path,          \* the replacement value
    substituted,        \* the tree substitute_path returned, or NotSubstituted
    \* ---- container naming ----
    genArgs,            \* two (base, version, host) tuples
    genNames,           \* the names _generate_name gave them, one pair per call
    \* ---- credentials in main ----
    cred,               \* what check_credentials finds on the controller host
    credChecked,        \* "no" | "ok" | "failed": result of check_credentials
    distStep,           \* index of the next command of the distribution to a host
    \* ---- artefact handling ----
    declared,           \* artefact_paths of the test
    missing_artefacts,  \* the paths the probe reported as missing
    test_uri,           \* test_config["uri"], or "unset"
    artefactUris,       \* endpoints the probe and the cleanup container ran on
    \* ---- the fan-out workers step by step ----
    wCalls,             \* worker -> calls made: log upload, artefact probe, export
    wProduced,          \* worker -> "yes" | "no": its client wrote the artefact
    wMissing,           \* worker -> "yes" | "no": its probe found the artefact missing
    artefact,           \* TRUE iff the artefact file exists in the mounted volume
    live,               \* containers of the endpoint: (name, worker that created it)
    removedBy,          \* (remover, creator) of every forced removal by name
    test_json,          \* the loaded test document, as far as it is written to
    extra_env           \* --extra_env

cfgVars == <<servers, parallel_repeats, repeat, opensearch_logger, s3_uploader,
             artefact_paths, container_suffix>>
engVars == <<engine, created>>
ctlVars == <<pc, iter, attempt, idx, steps, error, launchCalls, cleanupCalls,
             clientRuns, exit_code, delivered, exported, faults, sinkFaults>>
parVars == <<max_workers, wpc, wattempt, wname, werr>>
retryVars == <<rScript, rState, rAttempt, rCalls, rSleeps, rError, rLast>>
folderVars == <<fFiles, fPos, fRan>>
launchVars == <<lConfig, lCalls, lConflicts, pTimeout, pReadyAt, pNow, pAttempts>>
cleanVars == <<cOps, cRunning, server_logs_dict>>
baseVars == <<cfgVars, engVars, ctlVars, parVars, retryVars, folderVars, launchVars>>
removeVars == <<rmStep, rmCont, rmAbsentAt>>
speedVars == <<logLines, transfer_speed>>
substVars == <<sValue, test_path, substituted>>
nameVars == <<genArgs, genNames>>
credVars == <<cred, credChecked, distStep>>
artVars == <<declared, missing_artefacts, test_uri, artefactUris>>
fanVars == <<wCalls, wProduced, wMissing, artefact, live, removedBy, test_json,
            extra_env>>
extVars == <<cleanVars, removeVars, speedVars, substVars, nameVars, credVars,
             artVars, fanVars>>
vars == <<baseVars, extVars>>

----------------------------------------------------------------------------
\* Bounds of the model.
MaxServers == 2     \* servers per topology
MaxRepeat == 2      \* sequential iterations
MaxParallel == 2    \* fan-out workers
MaxScript == 4      \* outcomes scripted for the wrapped operation
MaxFaults == 3      \* collaborator failures injected into one test
MaxFiles == 2       \* files in the folder of a folder run
MaxTimeout == 3     \* timeout of the readiness probe, in seconds
MaxLaunchCalls == 2 \* calls of launch_server for the same server

\* Program constants.
MAX_RETRIES == 3
MAX_SERVER_RETRIES == 3

----------------------------------------------------------------------------
\* Strings.
Str_xrootd_server == <<"x","r","o","o","t","d","-","s","e","r","v","e","r">>
Str_xrootd_test_client ==
    <<"x","r","o","o","t","d","-","t","e","s","t","-","c","l","i","e","n","t">>
Str_test == <<"t","e","s","t">>
Str_parallel == <<"-","p","a","r","a","l","l","e","l","-">>

RECURSIVE Replace(_, _, _)
Replace(s, old, new) ==
    IF s = <<>> THEN <<>>
    ELSE <<IF Head(s) = old THEN new ELSE Head(s)>> \o Replace(Tail(s), old, new)

Contains(s, ch) == \E i \in 1..Len(s) : s[i] = ch

\* version.split(":")[-1]
AfterLast(s, ch) ==
    IF Contains(s, ch)
    THEN LET i == CHOOSE j \in 1..Len(s) : s[j] = ch /\ \A k \in (j+1)..Len(s) : s[k] # ch
         IN SubSeq(s, i + 1, Len(s))
    ELSE s

GenerateName(base, version, host) ==
    LET tag == IF Contains(version, ":") THEN AfterLast(version, ":") ELSE version
    IN base \o <<"-">> \o Replace(host, ".", "-") \o <<"-">> \o tag

Digit(d) == <<"0","1","2","3","4","5","6","7","8","9">>[d + 1]

RECURSIVE Decimal(_)
\* f"{i}" for a non-negative integer
Decimal(i) == IF i < 10 THEN <<Digit(i)>> ELSE Decimal(i \div 10) \o <<Digit(i % 10)>>

\* re.match(r"^xrootd[_-]", name)
MatchesXrootdPrefix(name) ==
    /\ Len(name) >= 7
    /\ SubSeq(name, 1, 6) = <<"x","r","o","o","t","d">>
    /\ name[7] \in {"_", "-"}

----------------------------------------------------------------------------
\* Inputs.
Endpoints == {"u1", "u2"}
ImageVersion == <<"i", ":", "v">>
HostOf(i) == <<"n">> \o Decimal(i)

\* Topologies: 0..MaxServers servers with pairwise distinct hosts; the first
\* server sits on endpoint u1 (the endpoints are interchangeable).
Topologies ==
    UNION { { s \in [1..n -> [uri : Endpoints, host : {HostOf(i) : i \in 1..n}]] :
                /\ \A i \in 1..n : s[i].host = HostOf(i)
                /\ n > 0 => s[1].uri = "u1" } : n \in 0..MaxServers }

ServerName(srv) == GenerateName(Str_xrootd_server, ImageVersion, srv.host)
\* A container is identified by its engine endpoint and its name.
Slot(srv) == <<srv.uri, ServerName(srv)>>
TestSlots == { Slot(servers[i]) : i \in DOMAIN servers }

Workers == 0..(MaxParallel - 1)
FirstUuid == <<"0","0","0","0","0","0","0","0">>
UUIDS == { FirstUuid, <<"f","f","f","f","f","f","f","f">> }

TransientErrors == {"TimeoutExpired", "RequestException", "OSError"}
FatalErrors == {"APIError"}

\* Variant: docker's APIError added to the except tuple.
IsTransientOrApi(e) == e \in TransientErrors \cup FatalErrors

\* except (subprocess.TimeoutExpired, requests.exceptions.RequestException, OSError)
IsTransient(e) == e \in TransientErrors

----------------------------------------------------------------------------
\* Container engine.
Absent == [st |-> "absent", stops |-> 0, removes |-> 0]

\* container.remove(force=True) on an existing container
Removed(c) == [c EXCEPT !.st = "absent", !.removes = @ + 1]

\* container.stop()
Stopped(c) == [c EXCEPT !.st = "stopped", !.stops = @ + 1]

\* cleanup_xrootd_containers: force-remove every container of the endpoint whose
\* name starts with xrootd- or xrootd_.
Purged(eng, uri) ==
    [sl \in DOMAIN eng |->
        IF sl[1] = uri /\ MatchesXrootdPrefix(sl[2]) /\ eng[sl].st # "absent"
        THEN Removed(eng[sl]) ELSE eng[sl]]

\* client.containers.get(name).remove(force=True), NotFound ignored
PreRemoved(eng, sl) ==
    IF eng[sl].st = "absent" THEN eng ELSE [eng EXCEPT ![sl] = Removed(@)]

\* client.containers.run(..., detach=True): a new container of that name
Started(eng, sl) ==
    [eng EXCEPT ![sl] = [st |-> "running", stops |-> 0, removes |-> 0]]

----------------------------------------------------------------------------
\* Initial state of the orchestration: a test has been loaded, nothing runs.
NoWorkers ==
    /\ max_workers = 0
    /\ wpc = [w \in Workers |-> "idle"]
    /\ wattempt = [w \in Workers |-> 0]
    /\ wname = [w \in Workers |-> <<>>]
    /\ werr = [w \in Workers |-> "none"]

RetryIdle ==
    /\ rScript = <<>>
    /\ rState = "idle"
    /\ rAttempt = 1
    /\ rCalls = 0
    /\ rSleeps = 0
    /\ rError = "none"
    /\ rLast = "none"

FolderIdle ==
    /\ fFiles = <<>>
    /\ fPos = 1
    /\ fRan = {}

\* entrypoint and volumes of the default busybox server of build_server_config
SentinelEntrypoint == <<"/bin/sh", "-c", "echo 'Hello world'; sleep 300">>
NoVolumes == {}

LaunchIdle ==
    /\ lConfig = [present |-> FALSE, entrypoint |-> SentinelEntrypoint, volumes |-> NoVolumes]
    /\ lCalls = 0
    /\ lConflicts = 0
    /\ pTimeout = 1
    /\ pReadyAt = 0
    /\ pNow = 0
    /\ pAttempts = 0

CleanIdle ==
    /\ cOps = <<>>
    /\ cRunning = {}
    /\ server_logs_dict = {}

RemoveIdle ==
    /\ rmStep = 1
    /\ rmCont = [c \in {"server", "client", "probe"} |-> FALSE]
    /\ rmAbsentAt = {}

\* Values of transfer_speed: Python's None, a float kept as the fraction
\* num/den, the ValueError float() raises, or not computed yet.
None == [kind |-> "None", num |-> 0, den |-> 1]
Float(n, d) == [kind |-> "float", num |-> n, den |-> d]
ValueError == [kind |-> "ValueError", num |-> 0, den |-> 1]
Pending == [kind |-> "pending", num |-> 0, den |-> 1]

SpeedIdle ==
    /\ logLines = <<>>
    /\ transfer_speed = Pending

SubstIdle ==
    /\ sValue = [t |-> "other", v |-> <<>>]
    /\ test_path = <<>>
    /\ substituted = [t |-> "pending", v |-> <<>>]

NameIdle ==
    /\ genArgs = <<>>
    /\ genNames = <<>>

CredIdle ==
    /\ cred = [isfile |-> FALSE, readable |-> FALSE, timeleft |-> -1, bearer |-> <<>>]
    /\ credChecked = "no"
    /\ distStep = 1

ArtIdle ==
    /\ declared = {}
    /\ missing_artefacts = {}
    /\ test_uri = "unset"
    /\ artefactUris = <<>>

FanIdle ==
    /\ wCalls = <<>>
    /\ wProduced = <<>>
    /\ wMissing = <<>>
    /\ artefact = FALSE
    /\ live = {}
    /\ removedBy = {}
    /\ test_json = [runner_tuple |-> FALSE, has_test_env |-> FALSE, test_env |-> {}]
    /\ extra_env = {}

ExtIdle ==
    /\ CleanIdle
    /\ RemoveIdle
    /\ SpeedIdle
    /\ SubstIdle
    /\ NameIdle
    /\ CredIdle
    /\ ArtIdle
    /\ FanIdle

EngineEmpty ==
    /\ engine = [sl \in TestSlots |-> Absent]
    /\ created = {}

ControllerAt(p) ==
    /\ pc = p
    /\ iter = 1
    /\ attempt = 0
    /\ idx = 1
    /\ steps = <<>>
    /\ error = "none"
    /\ launchCalls = 0
    /\ cleanupCalls = 0
    /\ clientRuns = 0
    /\ exit_code = 0
    /\ delivered = 0
    /\ exported = <<>>
    /\ faults = 0
    /\ sinkFaults = 0

Init ==
    /\ servers \in Topologies
    /\ \/ parallel_repeats = 0 /\ repeat \in 1..MaxRepeat
       \/ parallel_repeats \in 2..MaxParallel /\ repeat = 1
    /\ opensearch_logger \in BOOLEAN
    /\ s3_uploader \in BOOLEAN
    /\ artefact_paths \in BOOLEAN
    /\ container_suffix = <<>>
    /\ EngineEmpty
    /\ ControllerAt("start")
    /\ NoWorkers
    /\ RetryIdle
    /\ FolderIdle
    /\ LaunchIdle
    /\ ExtIdle

----------------------------------------------------------------------------
\* run_single_test: branch between the fan-out and the sequential path.
\* if parallel_repeats and parallel_repeats > 1 and not container_suffix
Fanout == parallel_repeats > 1 /\ container_suffix = <<>>

Raise(e) ==
    /\ pc' = "raised"
    /\ error' = e

\* A collaborator outcome: failures are counted and capped by MaxFaults.
Inject(failed) ==
    /\ failed => faults < MaxFaults
    /\ faults' = IF failed THEN faults + 1 ELSE faults
    /\ UNCHANGED sinkFaults

\* The same for an outcome of a sink (upload_fn of S3Uploader or OpenSearchLogger).
InjectSink(failed) ==
    /\ failed => faults < MaxFaults
    /\ faults' = IF failed THEN faults + 1 ELSE faults
    /\ sinkFaults' = IF failed THEN sinkFaults + 1 ELSE sinkFaults

RunSingleTest ==
    /\ pc = "start"
    /\ pc' = IF Fanout THEN "par_begin" ELSE "iter_begin"
    /\ UNCHANGED <<cfgVars, engVars, parVars, retryVars, folderVars, launchVars>>
    /\ UNCHANGED <<iter, attempt, idx, steps, error, launchCalls, cleanupCalls,
                   clientRuns, exit_code, delivered, exported, faults, sinkFaults>>
    /\ UNCHANGED extVars

\* _run_sequential_clients / _run_test_client_and_collect, up to the launch loop.
BeginIteration ==
    /\ pc = "iter_begin"
    /\ IF servers = <<>>
       THEN /\ pc' = "iter_abandoned"
            /\ steps' = <<>>
            /\ launchCalls' = 0
            /\ attempt' = 0
       ELSE /\ pc' = "launch"
            /\ steps' = <<"launch">>
            /\ launchCalls' = 1
            /\ attempt' = 1
    /\ idx' = 1
    /\ cleanupCalls' = 0
    /\ clientRuns' = 0
    /\ delivered' = 0
    /\ exported' = <<>>
    /\ exit_code' = 0
    /\ created' = {}
    /\ UNCHANGED <<cfgVars, engine, parVars, retryVars, folderVars, launchVars>>
    /\ UNCHANGED <<iter, error, faults, sinkFaults>>
    /\ UNCHANGED extVars

\* _run_parallel_clients, up to launch_servers.
ParBegin ==
    /\ pc = "par_begin"
    /\ IF servers = <<>>
       THEN pc' = "done" /\ launchCalls' = 0
       ELSE pc' = "launch" /\ launchCalls' = 1
    /\ UNCHANGED <<cfgVars, engVars, parVars, retryVars, folderVars, launchVars>>
    /\ UNCHANGED <<iter, attempt, idx, steps, error, cleanupCalls,
                   clientRuns, exit_code, delivered, exported, faults, sinkFaults>>
    /\ UNCHANGED extVars

\* Variant: the launch loop has no attempt limit.
LaunchNeverGivesUp(a) == FALSE

\* Variant: the launch loop gives up one attempt early.
LaunchGivesUpEarly(a) == a = MAX_SERVER_RETRIES - 1

\* if attempt == MAX_SERVER_RETRIES: return
LaunchGivesUp(a) == a = MAX_SERVER_RETRIES

\* Variant: the loop runs one attempt too many, range(1, MAX_RETRIES + 2).
RetryGivesUpLate(a) == a = MAX_RETRIES + 1

\* if attempt == MAX_RETRIES: raise
RetryGivesUp(a) == a = MAX_RETRIES

LaunchOutcomes == {"ok", "swallowed", "purge_conn", "probe_oserror", "not_ready"}

\* The exception that leaves launch_server, or "none".
LaunchException(o) ==
    CASE o = "purge_conn" -> "RequestException"
      [] o = "probe_oserror" -> "OSError"
      [] o = "not_ready" -> "RuntimeError"
      [] OTHER -> "none"

\* Whether launch_server got as far as a started container.
LaunchStarts(o) == o \in {"ok", "probe_oserror", "not_ready"}

\* Variant: launch_server removes nothing before it creates the container.
NotCleared(eng, srv) == eng

\* launch_server before containers.run: the purge of the endpoint, then the
\* forced removal of a container of the server's name.
Cleared(eng, srv) == PreRemoved(Purged(eng, srv.uri), Slot(srv))

\* Engine state after launch_server for one server, by outcome.
LaunchEffect(eng, srv, o) ==
    CASE o = "purge_conn" -> eng
      [] o = "swallowed" -> Cleared(eng, srv)
      [] OTHER -> Started(Cleared(eng, srv), Slot(srv))

\* launch_servers returned: the step that follows it.
AfterLaunch ==
    IF Fanout
    THEN /\ pc' = "submit"
         /\ attempt' = 0
         /\ max_workers' = parallel_repeats
         /\ UNCHANGED <<steps, wpc, wattempt, wname, werr>>
    ELSE /\ pc' = "client"
         /\ attempt' = 1
         /\ steps' = Append(steps, "client")
         /\ UNCHANGED parVars

\* One launch_server call of launch_servers, with the retry loop around
\* launch_servers on the sequential path and none on the fan-out path.
LaunchServer ==
    /\ pc = "launch"
    /\ \E o \in LaunchOutcomes :
        LET srv == servers[idx]
            e == LaunchException(o)
        IN /\ Inject(o # "ok")
           /\ engine' = LaunchEffect(engine, srv, o)
           /\ created' = IF LaunchStarts(o) THEN created \cup {Slot(srv)} ELSE created
           /\ IF e = "none"
              THEN IF idx < Len(servers)
                   THEN /\ idx' = idx + 1
                        /\ UNCHANGED <<pc, attempt, steps, error, launchCalls, parVars>>
                   ELSE /\ idx' = 1
                        /\ AfterLaunch
                        /\ UNCHANGED <<error, launchCalls>>
              ELSE IF ~Fanout /\ IsTransient(e)
                   THEN IF LaunchGivesUp(attempt)
                        THEN /\ pc' = "iter_abandoned"
                             /\ attempt' = 0
                             /\ idx' = 1
                             /\ UNCHANGED <<steps, error, launchCalls, parVars>>
                        ELSE /\ attempt' = attempt + 1
                             /\ idx' = 1
                             /\ launchCalls' = launchCalls + 1
                             /\ UNCHANGED <<pc, steps, error, parVars>>
                   ELSE /\ Raise(e)
                        /\ UNCHANGED <<attempt, idx, steps, launchCalls, parVars>>
    /\ UNCHANGED <<cfgVars, retryVars, folderVars, launchVars>>
    /\ UNCHANGED <<iter, cleanupCalls, clientRuns, exit_code, delivered, exported>>
    /\ UNCHANGED extVars

ExitCodes == {0, 1}
ClientOutcomes == {"exited"} \cup TransientErrors \cup FatalErrors

\* run_test_client_with_retries(run_client): one attempt of run_test.
RunClient ==
    /\ pc = "client"
    /\ \E o \in ClientOutcomes, code \in ExitCodes :
        /\ Inject(o # "exited")
        /\ IF o = "exited"
           THEN /\ pc' = "upload"
                /\ attempt' = 0
                /\ clientRuns' = clientRuns + 1
                /\ exit_code' = code
                /\ UNCHANGED error
           ELSE /\ code = 0
                /\ IF IsTransient(o) /\ ~RetryGivesUp(attempt)
                   THEN /\ attempt' = attempt + 1
                        /\ UNCHANGED <<pc, error>>
                   ELSE /\ Raise(o)
                        /\ UNCHANGED attempt
                /\ UNCHANGED <<clientRuns, exit_code>>
    /\ UNCHANGED <<cfgVars, engVars, parVars, retryVars, folderVars, launchVars>>
    /\ UNCHANGED <<iter, idx, steps, launchCalls, cleanupCalls, delivered, exported>>
    /\ UNCHANGED extVars

\* s3_uploader.upload_logs(test_client_log_key, ...), then _handle_artefacts is called.
UploadClientLog ==
    /\ pc = "upload"
    /\ \E ok \in BOOLEAN :
        /\ ~s3_uploader => ok
        /\ InjectSink(~ok)
        /\ IF ok
           THEN /\ pc' = "artefacts"
                /\ steps' = Append(steps, "artefacts")
                /\ UNCHANGED error
           ELSE /\ Raise("UploadError")
                /\ UNCHANGED steps
    /\ UNCHANGED <<cfgVars, engVars, parVars, retryVars, folderVars, launchVars>>
    /\ UNCHANGED <<iter, attempt, idx, launchCalls, cleanupCalls, clientRuns,
                   exit_code, delivered, exported>>
    /\ UNCHANGED extVars

\* Variant: the cleanup_servers call is missing, the export follows at once.
AfterArtefactsNoCleanup ==
    /\ pc' = "export"
    /\ idx' = 1
    /\ cleanupCalls' = cleanupCalls
    /\ steps' = Append(steps, "export")

\* _handle_artefacts returned: cleanup_servers is called.
AfterArtefacts ==
    /\ pc' = "cleanup"
    /\ idx' = 1
    /\ cleanupCalls' = cleanupCalls + 1
    /\ steps' = Append(steps, "cleanup")

\* _handle_artefacts: the probe container, then the cleanup container (whose
\* errors are swallowed).
HandleArtefacts ==
    /\ pc = "artefacts"
    /\ \E ok \in BOOLEAN :
        /\ ~artefact_paths => ok
        /\ Inject(~ok)
        /\ IF ok
           THEN /\ AfterArtefacts
                /\ UNCHANGED error
           ELSE /\ Raise("APIError")
                /\ UNCHANGED <<idx, cleanupCalls, steps>>
    /\ UNCHANGED <<cfgVars, engVars, parVars, retryVars, folderVars, launchVars>>
    /\ UNCHANGED <<iter, attempt, launchCalls, clientRuns, exit_code, delivered, exported>>
    /\ UNCHANGED extVars

CleanupOutcomes == {"ok", "unreachable", "upload_fail"}

\* Body of the cleanup_servers loop for one runner: get, stop if running,
\* logs, upload, remove; any exception is caught and logged.
CleanupEffect(eng, sl, o) ==
    IF o = "unreachable" \/ eng[sl].st = "absent"
    THEN eng
    ELSE LET c == IF eng[sl].st = "running" THEN Stopped(eng[sl]) ELSE eng[sl]
         IN [eng EXCEPT ![sl] = IF o = "upload_fail" THEN c ELSE Removed(c)]

\* cleanup_servers returned: the step that follows it.
AfterCleanup ==
    IF Fanout
    THEN /\ pc' = "done"
         /\ UNCHANGED steps
    ELSE /\ pc' = "export"
         /\ steps' = Append(steps, "export")

CleanupServer ==
    /\ pc = "cleanup"
    /\ \E o \in CleanupOutcomes :
        LET sl == Slot(servers[idx])
        IN /\ o = "upload_fail" => (s3_uploader /\ engine[sl].st # "absent")
           /\ IF o = "upload_fail" THEN InjectSink(TRUE) ELSE Inject(o # "ok")
           /\ engine' = CleanupEffect(engine, sl, o)
           /\ UNCHANGED created
    /\ IF idx < Len(servers)
       THEN /\ idx' = idx + 1
            /\ UNCHANGED <<pc, steps>>
       ELSE /\ idx' = 1
            /\ AfterCleanup
    /\ UNCHANGED <<cfgVars, parVars, retryVars, folderVars, launchVars>>
    /\ UNCHANGED <<iter, attempt, error, launchCalls, cleanupCalls, clientRuns,
                   exit_code, delivered, exported>>
    /\ UNCHANGED extVars

\* Keyword parameters of OpenSearchLogger.export_metadata.
ExportParams ==
    {"version", "container_name", "timestamp", "exit_code", "log_key", "test_name",
     "server_logs", "test_client_log", "test_start", "test_finish", "transfer_speed",
     "missing_artefacts"}

\* Keywords passed by _finalize_and_upload_metadata.
FinalizeKwargs == ExportParams \cup {"server_versions"}

\* Keywords passed by run_test_client_only.
WorkerKwargs == ExportParams

\* Python binds a call only if every keyword names a parameter.
CallBinds(kwargs, params) == kwargs \subseteq params

\* The metadata dict export_metadata builds (the field that the model follows).
Metadata(code) == [exit_code |-> code]

\* _finalize_and_upload_metadata
ExportMetadata ==
    /\ pc = "export"
    /\ IF ~opensearch_logger
       THEN /\ pc' = "iter_done"
            /\ UNCHANGED <<error, delivered, exported, faults, sinkFaults>>
       ELSE IF ~CallBinds(FinalizeKwargs, ExportParams)
            THEN /\ Raise("TypeError")
                 /\ UNCHANGED <<delivered, exported, faults, sinkFaults>>
            ELSE \E ok \in BOOLEAN :
                    /\ InjectSink(~ok)
                    /\ delivered' = delivered + 1
                    /\ exported' = Append(exported, Metadata(exit_code))
                    /\ IF ok THEN pc' = "iter_done" /\ UNCHANGED error
                             ELSE Raise("ExportError")
    /\ UNCHANGED <<cfgVars, engVars, parVars, retryVars, folderVars, launchVars>>
    /\ UNCHANGED <<iter, attempt, idx, steps, launchCalls, cleanupCalls, clientRuns,
                   exit_code>>
    /\ UNCHANGED extVars

IterEnded == pc \in {"iter_done", "iter_abandoned"}

\* Variant: for i in range(repeat - 1)
MoreIterationsShort(i) == i < repeat - 1

\* for i in range(repeat): whether an iteration follows iteration i (1-based)
MoreIterations(i) == i < repeat

NextIteration ==
    /\ IterEnded
    /\ IF MoreIterations(iter)
       THEN /\ iter' = iter + 1
            /\ pc' = "iter_begin"
       ELSE /\ pc' = "done"
            /\ UNCHANGED iter
    /\ UNCHANGED <<cfgVars, engVars, parVars, retryVars, folderVars, launchVars>>
    /\ UNCHANGED <<attempt, idx, steps, error, launchCalls, cleanupCalls, clientRuns,
                   exit_code, delivered, exported, faults, sinkFaults>>
    /\ UNCHANGED extVars

----------------------------------------------------------------------------
\* Fan-out.
\* Variant: f"-parallel-{uuid.uuid4().hex[:8]}", the index left out.
ClientSuffixNoIndex(i, u) == Str_parallel \o u

\* f"-parallel-{i}-{uuid.uuid4().hex[:8]}"
ClientSuffix(i, u) == Str_parallel \o Decimal(i) \o <<"-">> \o u

\* run_test: the client container name
ClientName(version, suffix) ==
    GenerateName(Str_xrootd_test_client, version, Str_test) \o suffix

Submitted == { w \in Workers : wpc[w] # "idle" }
Finished == { w \in Workers : wpc[w] \in {"done", "failed"} }

\* ThreadPoolExecutor: a submitted task starts at once while a thread is free.
PoolAdmits(n) == n < max_workers

\* executor.submit(run_client_instance, suffix) for i in range(parallel_repeats)
Submit ==
    /\ pc = "submit"
    /\ LET i == Cardinality(Submitted)
       IN /\ i < parallel_repeats
          /\ PoolAdmits(Cardinality(Submitted \ Finished))
          /\ \E u \in UUIDS :
                /\ i = 0 => u = FirstUuid      \* the uuid values are interchangeable
                /\ wname' = [wname EXCEPT ![i] = ClientName(ImageVersion, ClientSuffix(i, u))]
          /\ wpc' = [wpc EXCEPT ![i] = "run"]
          /\ wattempt' = [wattempt EXCEPT ![i] = 1]
          /\ pc' = IF i + 1 = parallel_repeats THEN "join" ELSE "submit"
    /\ UNCHANGED <<cfgVars, engVars, retryVars, folderVars, launchVars>>
    /\ UNCHANGED <<max_workers, werr>>
    /\ UNCHANGED <<iter, attempt, idx, steps, error, launchCalls, cleanupCalls,
                   clientRuns, exit_code, delivered, exported, faults, sinkFaults>>
    /\ UNCHANGED extVars

\* Where one call of run_test_client_only ends: it returns, or one of its
\* steps raises (run_test, the client-log upload, the artefact probe, the
\* metadata export; the artefact cleanup swallows its errors).
WorkerOutcomes ==
    {<<"returned", "none">>}
    \cup { <<"run_test", e>> : e \in {"RequestException", "APIError"} }
    \cup { <<"upload", e>> : e \in {"UploadError"} }
    \cup { <<"probe", e>> : e \in {"RequestException", "APIError"} }
    \cup { <<"export", e>> : e \in {"TypeError", "ExportError"} }

\* Which of these the configuration allows.
WorkerOutcomePossible(o) ==
    /\ o[1] = "upload" => s3_uploader
    /\ o[1] = "probe" => artefact_paths
    /\ o[1] = "export" => opensearch_logger
    /\ (opensearch_logger /\ ~CallBinds(WorkerKwargs, ExportParams))
            => (o[1] # "returned" /\ (o[1] = "export" => o[2] = "TypeError"))
    /\ o[2] = "TypeError" => ~CallBinds(WorkerKwargs, ExportParams)

\* run_test_client_with_retries(run_test_client_only, ...) in worker w: one
\* attempt. The attempt counter lives in the wrapper's frame (0: no frame).
WAttempt(w) ==
    /\ wpc[w] = "run"
    /\ \E o \in WorkerOutcomes :
        /\ WorkerOutcomePossible(o)
        /\ IF o[1] \in {"upload", "export"}
           THEN InjectSink(o[2] # "TypeError")
           ELSE Inject(o[1] # "returned")
        /\ IF o[1] = "returned"
           THEN /\ wpc' = [wpc EXCEPT ![w] = "done"]
                /\ wattempt' = [wattempt EXCEPT ![w] = 0]
                /\ UNCHANGED werr
           ELSE IF IsTransient(o[2]) /\ ~RetryGivesUp(wattempt[w])
                THEN /\ wattempt' = [wattempt EXCEPT ![w] = @ + 1]
                     /\ UNCHANGED <<wpc, werr>>
                ELSE /\ wpc' = [wpc EXCEPT ![w] = "failed"]
                     /\ werr' = [werr EXCEPT ![w] = o[2]]
                     /\ wattempt' = [wattempt EXCEPT ![w] = 0]
    /\ UNCHANGED <<cfgVars, engVars, retryVars, folderVars, launchVars>>
    /\ UNCHANGED <<pc, iter, attempt, idx, steps, error, launchCalls, cleanupCalls,
                   clientRuns, exit_code, delivered, exported>>
    /\ UNCHANGED <<max_workers, wname>>
    /\ UNCHANGED extVars

\* Exceptions derived from Exception (all that the model raises).
ExceptionClasses ==
    TransientErrors \cup FatalErrors
    \cup {"UploadError", "ExportError", "TypeError", "RuntimeError"}

\* Variant: the as_completed loop catches only the transient classes.
CaughtOnlyTransient(e) == IsTransient(e)

\* try: future.result() / except Exception
CaughtByJoin(e) == e \in ExceptionClasses

\* Variant: the controller goes on after the first completed future.
JoinFirstCompleted == \E w \in Submitted : w \in Finished

\* Leaving the with-block: executor.shutdown(wait=True)
JoinComplete == \A w \in Submitted : w \in Finished

\* The as_completed loop over all futures and the end of the with-block; then
\* cleanup_servers is called.
Join ==
    /\ pc = "join"
    /\ JoinComplete
    /\ IF \E w \in Submitted : werr[w] # "none" /\ ~CaughtByJoin(werr[w])
       THEN /\ \E w \in Submitted :
                /\ werr[w] # "none" /\ ~CaughtByJoin(werr[w])
                /\ Raise(werr[w])
            /\ UNCHANGED <<idx, cleanupCalls>>
       ELSE /\ pc' = "cleanup"
            /\ idx' = 1
            /\ cleanupCalls' = cleanupCalls + 1
            /\ UNCHANGED error
    /\ UNCHANGED <<cfgVars, engVars, parVars, retryVars, folderVars, launchVars>>
    /\ UNCHANGED <<iter, attempt, steps, launchCalls, clientRuns, exit_code,
                   delivered, exported, faults, sinkFaults>>
    /\ UNCHANGED extVars

Next ==
    \/ RunSingleTest
    \/ BeginIteration
    \/ ParBegin
    \/ LaunchServer
    \/ RunClient
    \/ UploadClientLog
    \/ HandleArtefacts
    \/ CleanupServer
    \/ ExportMetadata
    \/ NextIteration
    \/ Submit
    \/ \E w \in Workers : WAttempt(w)
    \/ Join

Spec == Init /\ [][Next]_vars

\* run_single_test for every value of parallel_repeats (0 when the key is
\* absent) and with or without a container suffix, on tests of at most one
\* server without a log sink and without artefacts.
Suffixes == {<<>>, <<"-", "x">>}

InitBranch ==
    /\ servers \in { t \in Topologies : Len(t) <= 1 }
    /\ parallel_repeats \in 0..MaxParallel
    /\ repeat \in 1..MaxRepeat
    /\ opensearch_logger \in BOOLEAN
    /\ s3_uploader = FALSE
    /\ artefact_paths = FALSE
    /\ container_suffix \in Suffixes
    /\ EngineEmpty
    /\ ControllerAt("start")
    /\ NoWorkers
    /\ RetryIdle
    /\ FolderIdle
    /\ LaunchIdle
    /\ ExtIdle

SpecBranch == InitBranch /\ [][Next]_vars

----------------------------------------------------------------------------
\* The retry wrapper run_test_client_with_retries on its own, around an
\* operation whose outcomes are scripted: some transient errors, then a result
\* or a non-transient error.
RECURSIVE Scripts(_)
\* All sequences of n transient errors.
Scripts(n) ==
    IF n = 0 THEN {<<>>}
    ELSE { Append(p, e) : p \in Scripts(n - 1), e \in TransientErrors }

FinalOutcomes == {"result"} \cup FatalErrors \cup {"RuntimeError"}

RetryScripts ==
    UNION { { Append(p, f) : p \in Scripts(k), f \in FinalOutcomes } :
            k \in 0..(MaxScript - 1) }

InitRetry ==
    /\ servers = <<>>
    /\ parallel_repeats = 0
    /\ repeat = 1
    /\ opensearch_logger = FALSE
    /\ s3_uploader = FALSE
    /\ artefact_paths = FALSE
    /\ container_suffix = <<>>
    /\ EngineEmpty
    /\ ControllerAt("off")
    /\ NoWorkers
    /\ FolderIdle
    /\ LaunchIdle
    /\ ExtIdle
    /\ rScript \in RetryScripts
    /\ rState = "calling"
    /\ rAttempt = 1
    /\ rCalls = 0
    /\ rSleeps = 0
    /\ rError = "none"
    /\ rLast = "none"

\* Outcome of the n-th invocation of the wrapped operation; it keeps its final
\* outcome from then on.
OpOutcome(n) == rScript[IF n < Len(rScript) THEN n ELSE Len(rScript)]

\* One pass of `for attempt in range(1, MAX_RETRIES + 1)`: call run_func; return
\* its result, or catch a transient error and either re-raise it (last attempt)
\* or sleep and go on; any other error propagates.
RetryCall ==
    /\ rState = "calling"
    /\ LET o == OpOutcome(rCalls + 1)
       IN /\ rCalls' = rCalls + 1
          /\ rLast' = o
          /\ IF o = "result"
             THEN /\ rState' = "returned"
                  /\ UNCHANGED <<rAttempt, rSleeps, rError>>
             ELSE IF IsTransient(o) /\ ~RetryGivesUp(rAttempt)
                  THEN /\ rSleeps' = rSleeps + 1
                       /\ rAttempt' = rAttempt + 1
                       /\ UNCHANGED <<rState, rError>>
                  ELSE /\ rState' = "raised"
                       /\ rError' = o
                       /\ UNCHANGED <<rAttempt, rSleeps>>
    /\ UNCHANGED <<cfgVars, engVars, ctlVars, parVars, rScript, folderVars, launchVars>>
    /\ UNCHANGED extVars

NextRetry == RetryCall

SpecRetry == InitRetry /\ [][NextRetry]_vars

----------------------------------------------------------------------------
\* run_tests_from_folder: the loop over the sorted files of a folder. A test
\* file is described by what decides how run_single_test ends for it.
TestEnvs == {"healthy", "launch_unreachable", "not_ready", "client_exhausted"}

\* A file that is not a test document.
OtherFile ==
    [json |-> FALSE, servers |-> FALSE, fanout |-> FALSE, test_command |-> FALSE,
     env |-> "healthy"]

TestFiles ==
    [json : {TRUE}, servers : BOOLEAN, fanout : BOOLEAN, test_command : BOOLEAN,
     env : TestEnvs]

Folders == UNION { [1..n -> TestFiles \cup {OtherFile}] : n \in 0..MaxFiles }

\* How run_single_test ends for test file f: "returned", or the exception that
\* leaves it. sink: a metadata sink is configured.
TestEnds(f, sink) ==
    IF ~f.servers THEN "returned"                               \* "No servers defined, skipping"
    ELSE IF f.fanout
    THEN CASE f.env = "launch_unreachable" -> "RequestException"  \* launch_servers, no retry
           [] f.env = "not_ready" -> "RuntimeError"
           [] OTHER -> "returned"                               \* worker errors end at the join
    ELSE CASE f.env = "launch_unreachable" -> "returned"        \* abandoned after 3 attempts
           [] f.env = "not_ready" -> "RuntimeError"
           [] ~f.test_command -> "KeyError"                     \* test_config["test_command"]
           [] f.env = "client_exhausted" -> "RequestException"
           [] sink -> "TypeError"                               \* export_metadata(server_versions=)
           [] OTHER -> "returned"

\* Whether an exception of run_single_test leaves the loop of run_tests_from_folder.
Propagates(e) == e # "returned"

InitFolder ==
    /\ servers = <<>>
    /\ parallel_repeats = 0
    /\ repeat = 1
    /\ opensearch_logger \in BOOLEAN
    /\ s3_uploader = FALSE
    /\ artefact_paths = FALSE
    /\ container_suffix = <<>>
    /\ EngineEmpty
    /\ ControllerAt("f_loop")
    /\ NoWorkers
    /\ RetryIdle
    /\ LaunchIdle
    /\ ExtIdle
    /\ fFiles \in Folders
    /\ fPos = 1
    /\ fRan = {}

\* One pass of `for test_file in sorted(files)`, or the end of the loop.
FolderStep ==
    /\ pc = "f_loop"
    /\ IF fPos > Len(fFiles)
       THEN /\ pc' = "f_done"
            /\ UNCHANGED <<fPos, fRan, error>>
       ELSE LET f == fFiles[fPos]
                e == TestEnds(f, opensearch_logger)
            IN IF ~f.json
               THEN /\ fPos' = fPos + 1                         \* continue
                    /\ UNCHANGED <<pc, fRan, error>>
               ELSE /\ fRan' = fRan \cup {fPos}
                    /\ IF Propagates(e)
                       THEN /\ Raise(e)
                            /\ UNCHANGED fPos
                       ELSE /\ fPos' = fPos + 1
                            /\ UNCHANGED <<pc, error>>
    /\ UNCHANGED <<cfgVars, engVars, parVars, retryVars, launchVars, fFiles>>
    /\ UNCHANGED <<iter, attempt, idx, steps, launchCalls, cleanupCalls, clientRuns,
                   exit_code, delivered, exported, faults, sinkFaults>>
    /\ UNCHANGED extVars

NextFolder == FolderStep

SpecFolder == InitFolder /\ [][NextFolder]_vars

----------------------------------------------------------------------------
\* launch_server on its own, for one server: build_server_config, the removal
\* of what is in the way, containers.run, and the readiness probe
\* _wait_for_service. It may be called again for the same server.
CustomEntrypoint == <<"xrootd", "-c", "/etc/xrootd/xrootd.cfg">>
SomeVolumes == {"/data"}
NoServerConfig ==
    [present |-> FALSE, entrypoint |-> SentinelEntrypoint, volumes |-> NoVolumes]

\* server.get("server_config"): absent, or a mapping with entrypoint and volumes
ServerConfigs ==
    {NoServerConfig} \cup
    [present : {TRUE}, entrypoint : {SentinelEntrypoint, CustomEntrypoint},
     volumes : {NoVolumes, SomeVolumes}]

\* build_server_config: entrypoint and volumes of the launch configuration
BuildServerConfig(server_config) ==
    IF server_config.present
    THEN [entrypoint |-> server_config.entrypoint, volumes |-> server_config.volumes]
    ELSE [entrypoint |-> SentinelEntrypoint, volumes |-> NoVolumes]

\* is_default in launch_server
IsDefault(cfg) == cfg.entrypoint = SentinelEntrypoint /\ cfg.volumes = NoVolumes

\* The endpoint starts to accept connections within this many seconds.
MaxReadyAt == 2 * MaxTimeout

\* A container of the server's name may be left from an earlier run.
LeftOvers == {Absent, [Absent EXCEPT !.st = "running"], [Absent EXCEPT !.st = "stopped"]}

InitLaunch ==
    /\ servers \in { t \in Topologies : Len(t) = 1 }
    /\ parallel_repeats = 0
    /\ repeat = 1
    /\ opensearch_logger = FALSE
    /\ s3_uploader = FALSE
    /\ artefact_paths = FALSE
    /\ container_suffix = <<>>
    /\ engine \in [TestSlots -> LeftOvers]
    /\ created = {}
    /\ ControllerAt("l_idle")
    /\ NoWorkers
    /\ RetryIdle
    /\ FolderIdle
    /\ lConfig \in ServerConfigs
    /\ lCalls = 0
    /\ lConflicts = 0
    /\ pTimeout \in 1..MaxTimeout
    /\ pReadyAt = 0
    /\ pNow = 0
    /\ pAttempts = 0
    /\ ExtIdle

LaunchCallOutcomes == {"ok", "swallowed", "purge_conn"}

\* One call of launch_server up to the readiness probe. containers.run refuses
\* a name that exists (APIError); launch_server swallows ConnectionError and
\* APIError raised inside its try block and returns.
LaunchCall ==
    /\ pc \in {"l_idle", "l_returned", "raised"}
    /\ lCalls < MaxLaunchCalls
    /\ lCalls' = lCalls + 1
    /\ pNow' = 0
    /\ pAttempts' = 0
    /\ \E o \in LaunchCallOutcomes, t \in 0..MaxReadyAt :
        LET srv == servers[1]
            sl == Slot(srv)
            cleared == Cleared(engine, srv)
            probes == o = "ok" /\ cleared[sl].st = "absent"
                        /\ ~IsDefault(BuildServerConfig(lConfig))
        IN /\ Inject(o # "ok")
           /\ pReadyAt' = t
           /\ ~probes => t = 0
           /\ CASE o = "purge_conn" ->
                    /\ Raise("RequestException")
                    /\ UNCHANGED <<engine, created, lConflicts>>
                [] o = "swallowed" ->
                    /\ engine' = cleared
                    /\ pc' = "l_returned"
                    /\ error' = "none"
                    /\ UNCHANGED <<created, lConflicts>>
                [] OTHER ->
                    IF cleared[sl].st # "absent"
                    THEN /\ engine' = cleared
                         /\ lConflicts' = lConflicts + 1
                         /\ pc' = "l_returned"
                         /\ error' = "none"
                         /\ UNCHANGED created
                    ELSE /\ engine' = Started(cleared, sl)
                         /\ created' = created \cup {sl}
                         /\ pc' = IF probes THEN "l_probe" ELSE "l_returned"
                         /\ error' = "none"
                         /\ UNCHANGED lConflicts
    /\ UNCHANGED <<cfgVars, parVars, retryVars, folderVars, lConfig, pTimeout>>
    /\ UNCHANGED <<iter, attempt, idx, steps, launchCalls, cleanupCalls, clientRuns,
                   exit_code, delivered, exported>>
    /\ UNCHANGED extVars

ConnectOutcomes == {"connected", "refused", "timed_out", "oserror"}

\* Seconds one socket.create_connection(..., timeout=1) takes.
ConnectSeconds(o) == IF o = "timed_out" THEN 1 ELSE 0

\* One pass of `for i in range(timeout)` in _wait_for_service: a connection
\* attempt; refused or timed out, it is followed by time.sleep(1); after the
\* last pass RuntimeError is raised. Any other OSError leaves the probe.
ProbeAttempt ==
    /\ pc = "l_probe"
    /\ pAttempts < pTimeout
    /\ pAttempts' = pAttempts + 1
    /\ \E o \in ConnectOutcomes :
        /\ o = "connected" => pNow >= pReadyAt
        /\ o \in {"refused", "timed_out"} => pNow < pReadyAt
        /\ Inject(o = "oserror")
        /\ CASE o = "connected" ->
                    /\ pc' = "l_returned"
                    /\ UNCHANGED <<pNow, error>>
             [] o = "oserror" ->
                    /\ Raise("OSError")
                    /\ UNCHANGED pNow
             [] OTHER ->
                    /\ pNow' = pNow + ConnectSeconds(o) + 1
                    /\ IF pAttempts + 1 = pTimeout
                       THEN Raise("RuntimeError")
                       ELSE UNCHANGED <<pc, error>>
    /\ UNCHANGED <<cfgVars, engVars, parVars, retryVars, folderVars>>
    /\ UNCHANGED <<lConfig, lCalls, lConflicts, pTimeout, pReadyAt>>
    /\ UNCHANGED <<iter, attempt, idx, steps, launchCalls, cleanupCalls, clientRuns,
                   exit_code, delivered, exported>>
    /\ UNCHANGED extVars

NextLaunch ==
    \/ LaunchCall
    \/ ProbeAttempt

SpecLaunch == InitLaunch /\ [][NextLaunch]_vars

\* The loops of a test together: run_single_test on a test of at most one
\* server and without sinks, or launch_server with its readiness probe. Every
\* container wait and every engine call returns, so a step that can be taken
\* is taken.
InitTermination ==
    \/ InitBranch /\ ~opensearch_logger /\ container_suffix = <<>>
    \/ InitLaunch

NextTermination == Next \/ NextLaunch

SpecTermination ==
    InitTermination /\ [][NextTermination]_vars /\ WF_vars(NextTermination)

----------------------------------------------------------------------------
\* cleanup_servers on its own, one engine call per step.
CleanupExceptions == {"NotFound", "ConnectionError", "APIError", "UploadError"}

\* Variant: the handler of the loop body catches NotFound only.
CaughtOnlyNotFound(e) == e = "NotFound"

\* except Exception as e: logger.warning(...)
CaughtByCleanup(e) == e \in CleanupExceptions

\* Variant: the logs are read without stopping the container.
StepAfterGetNoStop(running) == "c_logs"

\* if container.attrs["State"]["Running"]: container.stop()
StepAfterGet(running) == IF running THEN "c_stop" ELSE "c_logs"

\* variables no step of cleanup_servers touches
notCleanVars == <<parVars, retryVars, folderVars, launchVars, removeVars, speedVars, substVars, nameVars, credVars, artVars, fanVars>>

InitCleanup ==
    /\ servers \in Topologies
    /\ parallel_repeats = 0
    /\ repeat = 1
    /\ opensearch_logger = FALSE
    /\ s3_uploader \in BOOLEAN
    /\ artefact_paths = FALSE
    /\ container_suffix = <<>>
    /\ engine \in [TestSlots -> LeftOvers]
    /\ created = {}
    /\ ControllerAt("c_loop")
    /\ NoWorkers
    /\ RetryIdle
    /\ FolderIdle
    /\ LaunchIdle
    /\ CleanIdle
    /\ RemoveIdle
    /\ SpeedIdle
    /\ SubstIdle
    /\ NameIdle
    /\ CredIdle
    /\ ArtIdle
    /\ FanIdle

\* The engine call op of the runner at idx, with the state it met.
Logged(op) ==
    cOps' = Append(cOps, [i |-> idx, op |-> op, st |-> engine[Slot(servers[idx])].st])

\* An exception e left the try block of the loop body.
CleanupFails(e) ==
    IF CaughtByCleanup(e)
    THEN /\ pc' = "c_loop"
         /\ idx' = idx + 1
         /\ UNCHANGED error
    ELSE /\ pc' = "c_raised"
         /\ error' = e
         /\ UNCHANGED idx

\* for runner, _, _, _ in runners
CleanupLoop ==
    /\ pc = "c_loop"
    /\ pc' = IF idx <= Len(servers) THEN "c_get" ELSE "c_done"
    /\ UNCHANGED <<cfgVars, engVars, notCleanVars, cleanVars>>
    /\ UNCHANGED <<iter, attempt, idx, steps, error, launchCalls, cleanupCalls,
                   clientRuns, exit_code, delivered, exported, faults, sinkFaults>>

\* container = client.containers.get(runner.server_container_name)
CleanupGet ==
    /\ pc = "c_get"
    /\ Logged("get")
    /\ \E o \in {"ok", "ConnectionError"} :
        LET st == engine[Slot(servers[idx])].st
        IN /\ Inject(o # "ok")
           /\ IF o # "ok" THEN CleanupFails(o) /\ UNCHANGED cRunning
              ELSE IF st = "absent" THEN CleanupFails("NotFound") /\ UNCHANGED cRunning
              ELSE /\ pc' = StepAfterGet(st = "running")
                   /\ cRunning' = IF st = "running" THEN cRunning \cup {idx} ELSE cRunning
                   /\ UNCHANGED <<idx, error>>
    /\ UNCHANGED <<cfgVars, engVars, notCleanVars, server_logs_dict>>
    /\ UNCHANGED <<iter, attempt, steps, launchCalls, cleanupCalls, clientRuns,
                   exit_code, delivered, exported>>

\* container.stop()
CleanupStop ==
    /\ pc = "c_stop"
    /\ Logged("stop")
    /\ \E o \in {"ok", "APIError"} :
        /\ Inject(o # "ok")
        /\ IF o = "ok"
           THEN /\ engine' = [engine EXCEPT ![Slot(servers[idx])] = Stopped(@)]
                /\ pc' = "c_logs"
                /\ UNCHANGED <<idx, error>>
           ELSE /\ CleanupFails(o)
                /\ UNCHANGED engine
    /\ UNCHANGED <<cfgVars, created, notCleanVars, cRunning, server_logs_dict>>
    /\ UNCHANGED <<iter, attempt, steps, launchCalls, cleanupCalls, clientRuns,
                   exit_code, delivered, exported>>

\* logs = "".join(... container.logs(...)); without a log sink the key is
\* recorded at once.
CleanupLogs ==
    /\ pc = "c_logs"
    /\ Logged("logs")
    /\ \E o \in {"ok", "APIError"} :
        /\ Inject(o # "ok")
        /\ IF o = "ok"
           THEN /\ pc' = IF s3_uploader THEN "c_upload" ELSE "c_remove"
                /\ server_logs_dict' = IF s3_uploader THEN server_logs_dict
                                       ELSE server_logs_dict \cup {ServerName(servers[idx])}
                /\ UNCHANGED <<idx, error>>
           ELSE /\ CleanupFails(o)
                /\ UNCHANGED server_logs_dict
    /\ UNCHANGED <<cfgVars, engVars, notCleanVars, cRunning>>
    /\ UNCHANGED <<iter, attempt, steps, launchCalls, cleanupCalls, clientRuns,
                   exit_code, delivered, exported>>

\* s3_uploader.upload_logs(server_log_key, logs.encode()), then the key is recorded
CleanupUpload ==
    /\ pc = "c_upload"
    /\ \E o \in {"ok", "UploadError"} :
        /\ InjectSink(o # "ok")
        /\ IF o = "ok"
           THEN /\ pc' = "c_remove"
                /\ server_logs_dict' = server_logs_dict \cup {ServerName(servers[idx])}
                /\ UNCHANGED <<idx, error>>
           ELSE /\ CleanupFails(o)
                /\ UNCHANGED server_logs_dict
    /\ UNCHANGED <<cfgVars, engVars, notCleanVars, cOps, cRunning>>
    /\ UNCHANGED <<iter, attempt, steps, launchCalls, cleanupCalls, clientRuns,
                   exit_code, delivered, exported>>

\* container.remove(force=True)
CleanupRemove ==
    /\ pc = "c_remove"
    /\ Logged("remove")
    /\ \E o \in {"ok", "APIError"} :
        /\ Inject(o # "ok")
        /\ IF o = "ok"
           THEN /\ engine' = [engine EXCEPT ![Slot(servers[idx])] = Removed(@)]
                /\ pc' = "c_loop"
                /\ idx' = idx + 1
                /\ UNCHANGED error
           ELSE /\ CleanupFails(o)
                /\ UNCHANGED engine
    /\ UNCHANGED <<cfgVars, created, notCleanVars, cRunning, server_logs_dict>>
    /\ UNCHANGED <<iter, attempt, steps, launchCalls, cleanupCalls, clientRuns,
                   exit_code, delivered, exported>>

NextCleanup ==
    \/ CleanupLoop
    \/ CleanupGet
    \/ CleanupStop
    \/ CleanupLogs
    \/ CleanupUpload
    \/ CleanupRemove

SpecCleanup == InitCleanup /\ [][NextCleanup]_vars

----------------------------------------------------------------------------
\* The container removal steps of one test, in the order a test meets them.
MaxVanish == 2 \* containers that disappear behind the program's back

Containers == {"server", "client", "probe"}

RemovalSites == {"launch_pre", "client_pre", "client_post", "probe", "server_cleanup"}

\* Engine calls on the removal sites: containers.get, remove(force=True) and
\* the creation of the container in between.
RemovalPlan ==
    << [k |-> "get",    site |-> "launch_pre",     c |-> "server"],
       [k |-> "remove", site |-> "launch_pre",     c |-> "server"],
       [k |-> "run",    site |-> "launch_pre",     c |-> "server"],
       [k |-> "get",    site |-> "client_pre",     c |-> "client"],
       [k |-> "remove", site |-> "client_pre",     c |-> "client"],
       [k |-> "run",    site |-> "client_pre",     c |-> "client"],
       [k |-> "remove", site |-> "client_post",    c |-> "client"],
       [k |-> "run",    site |-> "probe",          c |-> "probe"],
       [k |-> "remove", site |-> "probe",          c |-> "probe"],
       [k |-> "get",    site |-> "server_cleanup", c |-> "server"],
       [k |-> "remove", site |-> "server_cleanup", c |-> "server"] >>

\* Variant: every removal site ignores NotFound.
NotFoundCaughtEverywhere(site) == site \in RemovalSites

\* The sites whose get/remove sits in a try with except NotFound (or except
\* Exception): launch_server, the head of run_test, cleanup_servers.
NotFoundCaught(site) == site \in {"launch_pre", "client_pre", "server_cleanup"}

notRemoveVars == <<parVars, retryVars, folderVars, launchVars, cleanVars, speedVars, substVars, nameVars, credVars, artVars, fanVars>>

InitRemove ==
    /\ servers \in { t \in Topologies : Len(t) = 1 }
    /\ parallel_repeats = 0
    /\ repeat = 1
    /\ opensearch_logger = FALSE
    /\ s3_uploader = FALSE
    /\ artefact_paths = TRUE
    /\ container_suffix = <<>>
    /\ EngineEmpty
    /\ ControllerAt("rm_run")
    /\ NoWorkers
    /\ RetryIdle
    /\ FolderIdle
    /\ LaunchIdle
    /\ CleanIdle
    /\ SpeedIdle
    /\ SubstIdle
    /\ NameIdle
    /\ CredIdle
    /\ ArtIdle
    /\ FanIdle
    /\ rmStep = 1
    /\ rmCont \in { f \in [Containers -> BOOLEAN] : ~f["probe"] }
    /\ rmAbsentAt = {}

\* NotFound at a removal site: ignored where the site has a handler, else it
\* leaves the function.
RmNotFound(site, resume) ==
    /\ rmAbsentAt' = rmAbsentAt \cup {site}
    /\ IF NotFoundCaught(site)
       THEN /\ rmStep' = resume
            /\ pc' = IF resume > Len(RemovalPlan) THEN "rm_done" ELSE pc
            /\ UNCHANGED error
       ELSE /\ Raise("NotFound")
            /\ UNCHANGED rmStep

RmAdvance ==
    /\ rmStep' = rmStep + 1
    /\ pc' = IF rmStep = Len(RemovalPlan) THEN "rm_done" ELSE pc
    /\ UNCHANGED error

\* client.containers.get(name)
RmGet ==
    /\ pc = "rm_run"
    /\ RemovalPlan[rmStep].k = "get"
    /\ LET st == RemovalPlan[rmStep]
       IN IF rmCont[st.c]
          THEN RmAdvance /\ UNCHANGED rmAbsentAt
          ELSE RmNotFound(st.site, rmStep + 2)
    /\ UNCHANGED <<cfgVars, engVars, notRemoveVars, rmCont>>
    /\ UNCHANGED <<iter, attempt, idx, steps, launchCalls, cleanupCalls,
                   clientRuns, exit_code, delivered, exported, faults, sinkFaults>>

\* container.remove(force=True)
RmRemove ==
    /\ pc = "rm_run"
    /\ RemovalPlan[rmStep].k = "remove"
    /\ LET st == RemovalPlan[rmStep]
       IN IF rmCont[st.c]
          THEN /\ rmCont' = [rmCont EXCEPT ![st.c] = FALSE]
               /\ RmAdvance
               /\ UNCHANGED rmAbsentAt
          ELSE /\ RmNotFound(st.site, rmStep + 1)
               /\ UNCHANGED rmCont
    /\ UNCHANGED <<cfgVars, engVars, notRemoveVars>>
    /\ UNCHANGED <<iter, attempt, idx, steps, launchCalls, cleanupCalls,
                   clientRuns, exit_code, delivered, exported, faults, sinkFaults>>

\* client.containers.run / client.containers.create
RmRun ==
    /\ pc = "rm_run"
    /\ RemovalPlan[rmStep].k = "run"
    /\ rmCont' = [rmCont EXCEPT ![RemovalPlan[rmStep].c] = TRUE]
    /\ RmAdvance
    /\ UNCHANGED <<cfgVars, engVars, notRemoveVars, rmAbsentAt>>
    /\ UNCHANGED <<iter, attempt, idx, steps, launchCalls, cleanupCalls,
                   clientRuns, exit_code, delivered, exported, faults, sinkFaults>>

\* A container disappears: the probe is created with remove=True and goes
\* when its command ends; any container may be removed by another user of
\* the engine.
Vanish ==
    /\ pc = "rm_run"
    /\ faults < MaxVanish
    /\ \E c \in Containers :
        /\ rmCont[c]
        /\ rmCont' = [rmCont EXCEPT ![c] = FALSE]
    /\ faults' = faults + 1
    /\ UNCHANGED <<cfgVars, engVars, notRemoveVars, rmStep, rmAbsentAt>>
    /\ UNCHANGED <<pc, iter, attempt, idx, steps, error, launchCalls, cleanupCalls,
                   clientRuns, exit_code, delivered, exported, sinkFaults>>

NextRemove ==
    \/ RmGet
    \/ RmRemove
    \/ RmRun
    \/ Vanish

SpecRemove == InitRemove /\ [][NextRemove]_vars

----------------------------------------------------------------------------
\* extract_transfer_speed and the record its result is exported in.
MaxLines == 2 \* lines of a log text

Digits == {"0","1","2","3","4","5","6","7","8","9"}
Units == {"k", "M", "G"}

\* s[i], or "" beyond the end
At(s, i) == IF i \in 1..Len(s) THEN s[i] ELSE ""

\* length of the longest run of characters of set cs that starts at s[i]
RunLen(s, i, cs) ==
    CHOOSE n \in 0..(Len(s) - i + 1) :
        /\ \A k \in i..(i + n - 1) : s[k] \in cs
        /\ At(s, i + n) \notin cs

DigitValue(c) == CHOOSE d \in 0..9 : Digit(d) = c

RECURSIVE ToInt(_)
ToInt(ds) ==
    IF ds = <<>> THEN 0
    ELSE 10 * ToInt(SubSeq(ds, 1, Len(ds) - 1)) + DigitValue(ds[Len(ds)])

RECURSIVE Pow10(_)
Pow10(n) == IF n = 0 THEN 1 ELSE 10 * Pow10(n - 1)

IsDigit(c) == c \in Digits
IsDot(c) == c = "."

\* float(s) for s made of digits and dots: at most one dot and a digit
CanFloat(s) == Len(SelectSeq(s, IsDot)) <= 1 /\ SelectSeq(s, IsDigit) # <<>>

ParseFloat(s) ==
    LET decimals == IF Contains(s, ".") THEN Len(AfterLast(s, ".")) ELSE 0
    IN Float(ToInt(SelectSeq(s, IsDigit)), Pow10(decimals))

\* kB/s: value / 1024, MB/s: value, GB/s: value * 1024
Normalize(v, unit) ==
    CASE unit = "k" -> Float(v.num, v.den * 1024)
      [] unit = "M" -> v
      [] unit = "G" -> Float(v.num * 1024, v.den)

\* r"\[(\d+(?:\.\d+)?)([kMG]B/s)\]" tried at s[i]
BracketMatch(s, i) ==
    LET a == i + 1
        n1 == RunLen(s, a, Digits)
        b == a + n1
        n2 == IF At(s, b) = "." THEN RunLen(s, b + 1, Digits) ELSE 0
        u == IF n2 > 0 THEN b + 1 + n2 ELSE b
    IN [ok |-> /\ At(s, i) = "["
               /\ n1 > 0
               /\ At(s, u) \in Units
               /\ <<At(s, u + 1), At(s, u + 2), At(s, u + 3), At(s, u + 4)>>
                    = <<"B", "/", "s", "]">>,
        value |-> SubSeq(s, a, u - 1),
        unit |-> At(s, u)]

\* positions of the matches re.findall returns
FindAll(s) == { i \in 1..Len(s) : BracketMatch(s, i).ok }

RECURSIVE Split(_, _)
\* s.split(sep)
Split(s, sep) ==
    IF ~Contains(s, sep) THEN <<s>>
    ELSE LET i == CHOOSE j \in 1..Len(s) : s[j] = sep /\ \A k \in 1..(j - 1) : s[k] # sep
         IN <<SubSeq(s, 1, i - 1)>> \o Split(SubSeq(s, i + 1, Len(s)), sep)

NotEmpty(piece) == piece # <<>>

\* line.strip().split()
Columns(line) == SelectSeq(Split(line, " "), NotEmpty)

\* re.match(r"([0-9.]+)([kMG])", speed_str)
SpeedMatch(speed_str) ==
    LET n == RunLen(speed_str, 1, Digits \cup {"."})
    IN [ok |-> n > 0 /\ At(speed_str, n + 1) \in Units,
        value |-> SubSeq(speed_str, 1, n),
        unit |-> At(speed_str, n + 1)]

RECURSIVE CurlScan(_, _)
\* the loop over logs.splitlines(): the speed of the last completion line
CurlScan(ls, curl_speed) ==
    IF ls = <<>> THEN curl_speed
    ELSE LET columns == Columns(Head(ls))
         IN IF Len(columns) >= 12 /\ columns[1] = <<"1","0","0">> /\ SpeedMatch(columns[7]).ok
            THEN LET mt == SpeedMatch(columns[7])
                 IN IF CanFloat(mt.value)
                    THEN CurlScan(Tail(ls), Normalize(ParseFloat(mt.value), mt.unit))
                    ELSE ValueError
            ELSE CurlScan(Tail(ls), curl_speed)

\* matches[-1]
PickLast(matches) == CHOOSE i \in matches : \A j \in matches : i >= j

extract_transfer_speed(logs) ==
    LET matches == FindAll(logs)
    IN IF matches # {}
       THEN LET mt == BracketMatch(logs, PickLast(matches))
            IN Normalize(ParseFloat(mt.value), mt.unit)
       ELSE CurlScan(Split(logs, "\n"), None)

\* ---- log texts ----
Filler(n) == [i \in 1..(2 * n) |-> IF i % 2 = 1 THEN " " ELSE "a"]

\* A line is described by what it is meant to be and rendered to characters:
\* a bracketed rate, a progress line of cols columns whose first column is
\* first and whose 7th is text followed by unit, or noise.
RateLine(text, val, unit) ==
    [kind |-> "rate", text |-> text, val |-> val, unit |-> unit, first |-> <<>>, cols |-> 0]
ProgressLine(first, cols, text, val, unit) ==
    [kind |-> "progress", text |-> text, val |-> val, unit |-> unit, first |-> first, cols |-> cols]
NoiseLine(text) ==
    [kind |-> "noise", text |-> text, val |-> None, unit |-> "", first |-> <<>>, cols |-> 0]

Str_100 == <<"1","0","0">>

LinePalette ==
    { RateLine(<<"5">>, Float(5, 1), "k"),
      RateLine(<<"0">>, Float(0, 1), "M"),
      RateLine(<<"2">>, Float(2, 1), "G"),
      RateLine(<<"1",".","5">>, Float(15, 10), "M"),
      ProgressLine(Str_100, 12, <<"3">>, Float(3, 1), "M"),
      ProgressLine(Str_100, 12, <<"0">>, Float(0, 1), "k"),
      ProgressLine(Str_100, 13, <<"2",".","5">>, Float(25, 10), "G"),
      ProgressLine(Str_100, 11, <<"4">>, Float(4, 1), "M"),
      ProgressLine(<<"9","9">>, 12, <<"4">>, Float(4, 1), "M"),
      ProgressLine(Str_100, 12, <<"7">>, Float(7, 1), ""),
      ProgressLine(Str_100, 12, <<"1",".","2",".","3">>, ValueError, "M"),
      NoiseLine(<<"a">>),
      NoiseLine(<<"[","5","B","/","s","]">>) }

RenderLine(d) ==
    CASE d.kind = "rate" ->
            <<"a", " ", "[">> \o d.text \o <<d.unit, "B", "/", "s", "]">>
      [] d.kind = "progress" ->
            d.first \o Filler(5) \o <<" ">> \o d.text
                    \o (IF d.unit = "" THEN <<>> ELSE <<d.unit>>) \o Filler(d.cols - 7)
      [] d.kind = "noise" -> d.text

RECURSIVE Render(_)
\* the log text: the lines joined by newlines
Render(ls) ==
    IF ls = <<>> THEN <<>>
    ELSE IF Len(ls) = 1 THEN RenderLine(ls[1])
    ELSE RenderLine(Head(ls)) \o <<"\n">> \o Render(Tail(ls))

LogTexts == UNION { [1..n -> LinePalette] : n \in 0..MaxLines }

\* The throughput field of the metadata dict export_metadata builds.
SpeedRecord(ts) ==
    IF ts # None
    THEN [f \in {"transfer_speed_MBps"} |-> ts]
    ELSE [f \in {} |-> ts]

notSpeedVars == <<parVars, retryVars, folderVars, launchVars, cleanVars, removeVars, substVars, nameVars, credVars, artVars, fanVars>>

InitSpeed ==
    /\ servers \in { t \in Topologies : Len(t) = 1 }
    /\ parallel_repeats \in {0, 2}
    /\ repeat = 1
    /\ opensearch_logger \in BOOLEAN
    /\ s3_uploader = FALSE
    /\ artefact_paths = FALSE
    /\ container_suffix = <<>>
    /\ EngineEmpty
    /\ ControllerAt("x_extract")
    /\ NoWorkers
    /\ RetryIdle
    /\ FolderIdle
    /\ LaunchIdle
    /\ CleanIdle
    /\ RemoveIdle
    /\ SubstIdle
    /\ NameIdle
    /\ CredIdle
    /\ ArtIdle
    /\ FanIdle
    /\ logLines \in LogTexts
    /\ transfer_speed = Pending

\* transfer_speed = extract_transfer_speed(logs)
ExtractSpeed ==
    /\ pc = "x_extract"
    /\ LET r == extract_transfer_speed(Render(logLines))
       IN /\ transfer_speed' = r
          /\ IF r = ValueError
             THEN Raise("ValueError")
             ELSE pc' = "x_export" /\ UNCHANGED error
    /\ UNCHANGED <<cfgVars, engVars, notSpeedVars, logLines>>
    /\ UNCHANGED <<iter, attempt, idx, steps, launchCalls, cleanupCalls,
                   clientRuns, exit_code, delivered, exported, faults, sinkFaults>>

\* opensearch_logger.export_metadata(..., transfer_speed=transfer_speed, ...)
\* called by _finalize_and_upload_metadata or by run_test_client_only
ExportSpeed ==
    /\ pc = "x_export"
    /\ IF ~opensearch_logger
       THEN /\ pc' = "x_done"
            /\ UNCHANGED <<error, delivered, exported>>
       ELSE IF ~CallBinds(IF Fanout THEN WorkerKwargs ELSE FinalizeKwargs, ExportParams)
            THEN /\ Raise("TypeError")
                 /\ UNCHANGED <<delivered, exported>>
            ELSE /\ delivered' = delivered + 1
                 /\ exported' = Append(exported, SpeedRecord(transfer_speed))
                 /\ pc' = "x_done"
                 /\ UNCHANGED error
    /\ UNCHANGED <<cfgVars, engVars, notSpeedVars, speedVars>>
    /\ UNCHANGED <<iter, attempt, idx, steps, launchCalls, cleanupCalls,
                   clientRuns, exit_code, faults, sinkFaults>>

NextSpeed ==
    \/ ExtractSpeed
    \/ ExportSpeed

SpecSpeed == InitSpeed /\ [][NextSpeed]_vars

----------------------------------------------------------------------------
\* substitute_path on configuration trees.
MaxWidth == 2 \* elements of a list, entries of a mapping

Token == <<"T","E","S","T","_","P","A","T","H">>

\* A string is kept as its characters, each with the index it had in the
\* input string (o, 0 for a character of the replacement value).
Tag(s) == [i \in 1..Len(s) |-> [c |-> s[i], o |-> i]]
Fresh(s) == [i \in 1..Len(s) |-> [c |-> s[i], o |-> 0]]
Chars(ts) == [i \in 1..Len(ts) |-> ts[i].c]

StartsWith(ts, old) == Len(ts) >= Len(old) /\ Chars(SubSeq(ts, 1, Len(old))) = old

RECURSIVE StrReplaceFirst(_, _, _)
\* Variant: value.replace("TEST_PATH", test_path, 1)
StrReplaceFirst(ts, old, new) ==
    IF ts = <<>> THEN <<>>
    ELSE IF StartsWith(ts, old)
    THEN new \o SubSeq(ts, Len(old) + 1, Len(ts))
    ELSE <<Head(ts)>> \o StrReplaceFirst(Tail(ts), old, new)

RECURSIVE StrReplace(_, _, _)
\* str.replace(old, new): every occurrence, scanning from the left
StrReplace(ts, old, new) ==
    IF ts = <<>> THEN <<>>
    ELSE IF StartsWith(ts, old)
    THEN new \o StrReplace(SubSeq(ts, Len(old) + 1, Len(ts)), old, new)
    ELSE <<Head(ts)>> \o StrReplace(Tail(ts), old, new)

\* Configuration trees: str, list, dict, and a leaf of another type.
StrLeaf(s) == [t |-> "str", v |-> Tag(s)]
OtherLeaf == [t |-> "other", v |-> <<>>]
ListOf(xs) == [t |-> "list", v |-> xs]
DictOf(es) == [t |-> "dict", v |-> es]
NotSubstituted == [t |-> "pending", v |-> <<>>]

\* d[k] = x on an insertion-ordered dict
DictSet(d, k, x) ==
    IF \E i \in 1..Len(d) : Chars(d[i].k) = Chars(k)
    THEN LET i == CHOOSE j \in 1..Len(d) : Chars(d[j].k) = Chars(k)
         IN [d EXCEPT ![i].x = x]
    ELSE Append(d, [k |-> k, x |-> x])

RECURSIVE substitute_path(_, _)
RECURSIVE SubstituteItems(_, _, _)
\* {substitute_path(k, test_path): substitute_path(v, test_path) for k, v in value.items()}
SubstituteItems(items, p, acc) ==
    IF items = <<>> THEN acc
    ELSE SubstituteItems(Tail(items), p,
            DictSet(acc, StrReplace(Head(items).k, Token, Fresh(p)),
                    substitute_path(Head(items).x, p)))

substitute_path(value, p) ==
    CASE value.t = "dict" -> DictOf(SubstituteItems(value.v, p, <<>>))
      [] value.t = "list" ->
            ListOf([i \in 1..Len(value.v) |-> substitute_path(value.v[i], p)])
      [] value.t = "str" -> [t |-> "str", v |-> StrReplace(value.v, Token, Fresh(p))]
      [] OTHER -> value

\* ---- inputs ----
Str_tmp == <<"/","t","m","p">>
StringPalette ==
    { <<"/","d">>,
      Token,
      Token \o <<"/">> \o Token,
      <<"T","E","S","T","_">> \o Token \o <<"P","A","T","H">> }
KeyPalette == { Token \o <<"/","k">>, Str_tmp \o <<"/","k">>, <<"k">> }
TestPaths == { Str_tmp, <<>>, <<"/">> \o Token }

Leaves == { StrLeaf(s) : s \in StringPalette } \cup {OtherLeaf}
ListsOver(xs) == { ListOf(l) : l \in UNION { [1..n -> xs] : n \in 0..MaxWidth } }
EntriesOver(xs) == { [k |-> Tag(k), x |-> x] : k \in KeyPalette, x \in xs }
DistinctKeys(es) == \A i, j \in 1..Len(es) : i # j => es[i].k # es[j].k
DictsOver(xs) ==
    { DictOf(es) : es \in { l \in UNION { [1..n -> EntriesOver(xs)] : n \in 0..MaxWidth } :
                              DistinctKeys(l) } }
Flat == ListsOver(Leaves) \cup DictsOver(Leaves)
\* a leaf, a flat list or mapping, or one of those inside a list or a mapping
ConfigTrees ==
    Leaves \cup Flat
    \cup { ListOf(<<x>>) : x \in Flat }
    \cup { DictOf(<<[k |-> Tag(k), x |-> x]>>) : k \in KeyPalette, x \in Flat }

notSubstVars == <<parVars, retryVars, folderVars, launchVars, cleanVars, removeVars,
                  speedVars, nameVars, credVars, artVars, fanVars>>

InitSubst ==
    /\ servers \in { t \in Topologies : Len(t) = 1 }
    /\ parallel_repeats = 0
    /\ repeat = 1
    /\ opensearch_logger = FALSE
    /\ s3_uploader = FALSE
    /\ artefact_paths = FALSE
    /\ container_suffix = <<>>
    /\ EngineEmpty
    /\ ControllerAt("s_call")
    /\ NoWorkers
    /\ RetryIdle
    /\ FolderIdle
    /\ LaunchIdle
    /\ CleanIdle
    /\ RemoveIdle
    /\ SpeedIdle
    /\ NameIdle
    /\ CredIdle
    /\ ArtIdle
    /\ FanIdle
    /\ sValue \in ConfigTrees
    /\ test_path \in TestPaths
    /\ substituted = NotSubstituted

\* substitute_path(value, test_path)
Substitute ==
    /\ pc = "s_call"
    /\ substituted' = substitute_path(sValue, test_path)
    /\ pc' = "s_done"
    /\ UNCHANGED <<cfgVars, engVars, notSubstVars, sValue, test_path>>
    /\ UNCHANGED <<iter, attempt, idx, steps, error, launchCalls, cleanupCalls,
                   clientRuns, exit_code, delivered, exported, faults, sinkFaults>>

NextSubst == Substitute

SpecSubst == InitSubst /\ [][NextSubst]_vars

----------------------------------------------------------------------------
\* _generate_name on two argument tuples.
NameBases == {Str_xrootd_server, Str_xrootd_test_client}
NameVersions == { <<"i",":","v">>, <<"j",":","v">>, <<"v">>, <<"i",":","w">> }
NameHosts == { <<"n","1">>, <<"a",".","b">>, <<"a","-","b">>, Str_test }
NameArgs == [base : NameBases, version : NameVersions, host : NameHosts]

notNameVars == <<parVars, retryVars, folderVars, launchVars, cleanVars, removeVars,
                 speedVars, substVars, credVars, artVars, fanVars>>

InitName ==
    /\ servers \in { t \in Topologies : Len(t) = 1 }
    /\ parallel_repeats = 0
    /\ repeat = 1
    /\ opensearch_logger = FALSE
    /\ s3_uploader = FALSE
    /\ artefact_paths = FALSE
    /\ container_suffix = <<>>
    /\ EngineEmpty
    /\ ControllerAt("n_call")
    /\ NoWorkers
    /\ RetryIdle
    /\ FolderIdle
    /\ LaunchIdle
    /\ CleanIdle
    /\ RemoveIdle
    /\ SpeedIdle
    /\ SubstIdle
    /\ CredIdle
    /\ ArtIdle
    /\ FanIdle
    /\ genArgs \in [1..2 -> NameArgs]
    /\ genNames = <<>>

\* self._generate_name(base, version, host), once for each tuple
GenerateNames ==
    /\ pc \in {"n_call", "n_again"}
    /\ genNames' = Append(genNames,
                          [i \in 1..2 |-> GenerateName(genArgs[i].base, genArgs[i].version,
                                                       genArgs[i].host)])
    /\ pc' = IF pc = "n_call" THEN "n_again" ELSE "n_done"
    /\ UNCHANGED <<cfgVars, engVars, notNameVars, genArgs>>
    /\ UNCHANGED <<iter, attempt, idx, steps, error, launchCalls, cleanupCalls,
                   clientRuns, exit_code, delivered, exported, faults, sinkFaults>>

NextName == GenerateNames

SpecName == InitName /\ [][NextName]_vars

----------------------------------------------------------------------------
\* main: the credential check and the distribution of the x509 proxy, then the tests.
MIN_SECONDS == 3600

Str_token == <<"t","o","k">>

\* What check_credentials finds: the proxy file, its permissions, the seconds
\* voms-proxy-info reports as left (-1: no timeleft line or the tool failed)
\* and the BEARER_TOKEN variable.
CredentialStates ==
    [isfile : BOOLEAN, readable : BOOLEAN, timeleft : {-1, MIN_SECONDS - 1, MIN_SECONDS},
     bearer : {<<>>, Str_token}]

\* check_x509_proxy_validity
ProxyValid(timeleft) == timeleft >= MIN_SECONDS

\* CredentialManager.check_credentials
check_credentials(c) ==
    /\ c.isfile
    /\ c.readable
    /\ ProxyValid(c.timeleft)
    /\ c.bearer # <<>>

\* the three commands run per host: ssh rm -f, scp, ssh chown
DistributeCommands == <<"rm", "scp", "chown">>

\* Variant: a failed check is logged and main goes on.
AfterCheckLogOnly(ok) == "m_distribute"

\* if not cred_mgr.check_credentials(): sys.exit(1)
AfterCheck(ok) == IF ok THEN "m_distribute" ELSE "m_exit"

notCredVars == <<parVars, retryVars, folderVars, launchVars, cleanVars, removeVars,
                 speedVars, substVars, nameVars, artVars, fanVars>>

InitCred ==
    /\ servers \in Topologies
    /\ parallel_repeats = 0
    /\ repeat = 1
    /\ opensearch_logger = TRUE
    /\ s3_uploader = TRUE
    /\ artefact_paths = FALSE
    /\ container_suffix = <<>>
    /\ EngineEmpty
    /\ ControllerAt("m_check")
    /\ NoWorkers
    /\ RetryIdle
    /\ FolderIdle
    /\ LaunchIdle
    /\ CleanIdle
    /\ RemoveIdle
    /\ SpeedIdle
    /\ SubstIdle
    /\ NameIdle
    /\ ArtIdle
    /\ FanIdle
    /\ cred \in CredentialStates
    /\ credChecked = "no"
    /\ distStep = 1

\* cred_mgr.check_credentials() in main
CheckCredentials ==
    /\ pc = "m_check"
    /\ LET ok == check_credentials(cred)
       IN /\ credChecked' = IF ok THEN "ok" ELSE "failed"
          /\ pc' = AfterCheck(ok)
    /\ UNCHANGED <<cfgVars, engVars, notCredVars, cred, distStep>>
    /\ UNCHANGED <<iter, attempt, idx, steps, error, launchCalls, cleanupCalls,
                   clientRuns, exit_code, delivered, exported, faults, sinkFaults>>

\* distribute_x509_to_nodes: one subprocess.run(..., check=True) of the loop;
\* CalledProcessError becomes RuntimeError, a missing ssh binary is an OSError.
DistributeStep ==
    /\ pc = "m_distribute"
    /\ IF idx > Len(servers)
       THEN /\ pc' = "m_launch"
            /\ UNCHANGED <<idx, distStep, error, faults, sinkFaults>>
       ELSE \E o \in {"ok", "RuntimeError", "OSError"} :
               /\ Inject(o # "ok")
               /\ IF o = "ok"
                  THEN /\ distStep' = IF distStep = Len(DistributeCommands) THEN 1 ELSE distStep + 1
                       /\ idx' = IF distStep = Len(DistributeCommands) THEN idx + 1 ELSE idx
                       /\ UNCHANGED <<pc, error>>
                  ELSE /\ Raise(o)
                       /\ UNCHANGED <<idx, distStep>>
    /\ UNCHANGED <<cfgVars, engVars, notCredVars, cred, credChecked>>
    /\ UNCHANGED <<iter, attempt, steps, launchCalls, cleanupCalls,
                   clientRuns, exit_code, delivered, exported>>

\* run_single_test / run_tests_from_folder: the servers are launched
MainLaunch ==
    /\ pc = "m_launch"
    /\ launchCalls' = launchCalls + 1
    /\ engine' = [sl \in TestSlots |-> Started(engine, sl)[sl]]
    /\ created' = TestSlots
    /\ pc' = "m_client"
    /\ UNCHANGED <<cfgVars, notCredVars, credVars>>
    /\ UNCHANGED <<iter, attempt, idx, steps, error, cleanupCalls,
                   clientRuns, exit_code, delivered, exported, faults, sinkFaults>>

\* ... and the test client is run
MainClient ==
    /\ pc = "m_client"
    /\ clientRuns' = clientRuns + 1
    /\ pc' = "m_done"
    /\ UNCHANGED <<cfgVars, engVars, notCredVars, credVars>>
    /\ UNCHANGED <<iter, attempt, idx, steps, error, launchCalls, cleanupCalls,
                   exit_code, delivered, exported, faults, sinkFaults>>

NextCred ==
    \/ CheckCredentials
    \/ DistributeStep
    \/ MainLaunch
    \/ MainClient

SpecCred == InitCred /\ [][NextCred]_vars

----------------------------------------------------------------------------
\* The tail of _run_test_client_and_collect (artefact check and cleanup,
\* server cleanup, export) and of run_test_client_only (the same without the
\* server cleanup, which the controller does after the workers).
ArtefactPaths == {"p1", "p2"}

\* test_client_uri = test_config.get("uri", server.get("uri")) with
\* server = runners[0][1]: the endpoint the client container ran on.
TestClientUri == IF test_uri = "unset" THEN servers[1].uri ELSE test_uri

\* podman_sock=runner.podman_sock with runner = runners[0][0]: the endpoint
\* given to the artefact probe and to the artefact cleanup.
ArtefactUri == servers[1].uri

\* How the cleanup container can end: the engine is unreachable, the name is
\* taken (APIError), the removal command exits non-zero (ContainerError).
ArtefactCleanupOutcomes == {"ok", "ConnectionError", "APIError", "ContainerError"}

\* Variant: the except tuple of launch_server.
CaughtOnlyEngineErrors(e) == e \in {"ConnectionError", "APIError"}

\* cleanup_artefacts_with_container: except Exception
CaughtByArtefactCleanup(e) == e \in ExceptionClasses \cup {"ConnectionError", "ContainerError"}

\* The metadata dict export_metadata builds (the field that the model follows).
ArtefactRecord(missing) == [missing_artefacts |-> missing]

notArtVars == <<parVars, retryVars, folderVars, launchVars, cleanVars, removeVars,
                speedVars, substVars, nameVars, credVars, fanVars>>

InitArtefacts ==
    /\ servers \in { t \in Topologies : Len(t) > 0 }
    /\ parallel_repeats \in {0, 2}
    /\ repeat = 1
    /\ opensearch_logger \in BOOLEAN
    /\ s3_uploader \in BOOLEAN
    /\ artefact_paths = TRUE
    /\ container_suffix = <<>>
    /\ engine \in [TestSlots -> {[Absent EXCEPT !.st = "running"]}]
    /\ created = TestSlots
    /\ ControllerAt("a_check")
    /\ NoWorkers
    /\ RetryIdle
    /\ FolderIdle
    /\ LaunchIdle
    /\ CleanIdle
    /\ RemoveIdle
    /\ SpeedIdle
    /\ SubstIdle
    /\ NameIdle
    /\ CredIdle
    /\ FanIdle
    /\ declared \in (SUBSET ArtefactPaths) \ {{}}
    /\ missing_artefacts = {}
    /\ test_uri \in Endpoints \cup {"unset"}
    /\ artefactUris = <<>>

\* XRootDTestRunner.check_artefacts_with_container: the probe reports the
\* declared paths that do not exist, or an engine error leaves the function.
CheckArtefacts ==
    /\ pc = "a_check"
    /\ steps' = Append(steps, "check_artefacts")
    /\ artefactUris' = Append(artefactUris, ArtefactUri)
    /\ \E o \in {"ok", "APIError"} :
        /\ Inject(o # "ok")
        /\ IF o = "ok"
           THEN /\ missing_artefacts' \in SUBSET declared
                /\ pc' = "a_cleanup"
                /\ UNCHANGED error
           ELSE /\ Raise(o)
                /\ UNCHANGED missing_artefacts
    /\ UNCHANGED <<cfgVars, engVars, notArtVars, declared, test_uri>>
    /\ UNCHANGED <<iter, attempt, idx, launchCalls, cleanupCalls,
                   clientRuns, exit_code, delivered, exported>>

\* XRootDTestRunner.cleanup_artefacts_with_container: the whole engine dialogue
\* sits in one try; what the handler catches is logged and the function returns.
CleanupArtefacts ==
    /\ pc = "a_cleanup"
    /\ steps' = Append(steps, "cleanup_artefacts")
    /\ artefactUris' = Append(artefactUris, ArtefactUri)
    /\ \E o \in ArtefactCleanupOutcomes :
        /\ Inject(o # "ok")
        /\ IF o = "ok" \/ CaughtByArtefactCleanup(o)
           THEN /\ pc' = IF Fanout THEN "a_export" ELSE "a_servers"
                /\ UNCHANGED error
           ELSE Raise(o)
    /\ UNCHANGED <<cfgVars, engVars, notArtVars, declared, missing_artefacts, test_uri>>
    /\ UNCHANGED <<iter, attempt, idx, launchCalls, cleanupCalls,
                   clientRuns, exit_code, delivered, exported>>

\* cleanup_servers(runners, ...): all runners, errors are logged
CleanupAllServers ==
    /\ pc = "a_servers"
    /\ steps' = Append(steps, "cleanup_servers")
    /\ cleanupCalls' = cleanupCalls + 1
    /\ engine' = [sl \in TestSlots |-> Removed(Stopped(engine[sl]))]
    /\ pc' = "a_export"
    /\ UNCHANGED <<cfgVars, created, notArtVars, artVars>>
    /\ UNCHANGED <<iter, attempt, idx, error, launchCalls,
                   clientRuns, exit_code, delivered, exported, faults, sinkFaults>>

\* _finalize_and_upload_metadata(..., missing_artefacts, server_versions=...)
\* on the sequential path, opensearch_logger.export_metadata(...) in a worker
ExportArtefacts ==
    /\ pc = "a_export"
    /\ steps' = Append(steps, "export")
    /\ IF ~opensearch_logger
       THEN /\ pc' = "a_done"
            /\ UNCHANGED <<error, delivered, exported>>
       ELSE IF ~CallBinds(IF Fanout THEN WorkerKwargs ELSE FinalizeKwargs, ExportParams)
            THEN /\ Raise("TypeError")
                 /\ UNCHANGED <<delivered, exported>>
            ELSE /\ delivered' = delivered + 1
                 /\ exported' = Append(exported, ArtefactRecord(missing_artefacts))
                 /\ pc' = "a_done"
                 /\ UNCHANGED error
    /\ UNCHANGED <<cfgVars, engVars, notArtVars, artVars>>
    /\ UNCHANGED <<iter, attempt, idx, launchCalls, cleanupCalls,
                   clientRuns, exit_code, faults, sinkFaults>>

NextArtefacts ==
    \/ CheckArtefacts
    \/ CleanupArtefacts
    \/ CleanupAllServers
    \/ ExportArtefacts

SpecArtefacts == InitArtefacts /\ [][NextArtefacts]_vars

----------------------------------------------------------------------------
\* The bodies of the fan-out workers, step by step: N threads run
\* run_test_client_only under the retry wrapper against one engine endpoint,
\* with the volumes, the artefact paths and the loaded test document they share.
CleanupContainerName ==
    <<"c","l","e","a","n","u","p","-","a","l","l","-","a","r","t","e","f","a","c","t","s">>

\* The loaded test document as far as the code writes to it.
LoadedDocuments ==
    [runner_tuple : {FALSE}, has_test_env : BOOLEAN, test_env : {{"A"}}]

ExtraEnvs == {{}, {"X"}}

notFanVars == <<retryVars, folderVars, launchVars, cleanVars, removeVars,
                speedVars, substVars, nameVars, credVars, artVars>>

InitWorkers ==
    /\ servers \in { t \in Topologies : Len(t) = 1 }
    /\ parallel_repeats \in 2..MaxParallel
    /\ repeat = 1
    /\ opensearch_logger \in BOOLEAN
    /\ s3_uploader \in BOOLEAN
    /\ artefact_paths \in BOOLEAN
    /\ container_suffix = <<>>
    /\ engine \in [TestSlots -> {[Absent EXCEPT !.st = "running"]}]
    /\ created = TestSlots
    /\ ControllerAt("attach")
    /\ NoWorkers
    /\ RetryIdle
    /\ FolderIdle
    /\ LaunchIdle
    /\ CleanIdle
    /\ RemoveIdle
    /\ SpeedIdle
    /\ SubstIdle
    /\ NameIdle
    /\ CredIdle
    /\ ArtIdle
    /\ wCalls = [w \in Workers |-> [upload |-> 0, probe |-> 0, export |-> 0]]
    /\ wProduced = [w \in Workers |-> "pending"]
    /\ wMissing = [w \in Workers |-> "pending"]
    /\ artefact = FALSE
    /\ live = {}
    /\ removedBy = {}
    /\ test_json \in LoadedDocuments
    /\ extra_env \in ExtraEnvs

\* for idx, (...) in enumerate(runners): servers[idx]["runner_tuple"] = (...),
\* then the executor is created.
AttachRunners ==
    /\ pc = "attach"
    /\ test_json' = [test_json EXCEPT !.runner_tuple = TRUE]
    /\ max_workers' = parallel_repeats
    /\ pc' = "submit"
    /\ UNCHANGED <<cfgVars, engVars, notFanVars>>
    /\ UNCHANGED <<wpc, wattempt, wname, werr>>
    /\ UNCHANGED <<iter, attempt, idx, steps, error, launchCalls, cleanupCalls,
                   clientRuns, exit_code, delivered, exported, faults, sinkFaults>>
    /\ UNCHANGED <<wCalls, wProduced, wMissing, artefact, live, removedBy, extra_env>>

\* test_env = test_config.get("test_env", {}); if extra_env: test_env.update(extra_env)
EnvUpdated(doc, extra) ==
    IF doc.has_test_env /\ extra # {}
    THEN [doc EXCEPT !.test_env = @ \cup extra]
    ELSE doc

\* client.containers.get(name).remove(force=True): the containers of that name
\* that exist, as (name, owner) pairs.
Named(name) == { c \in live : c[1] = name }

\* An exception leaves run_test_client_only in worker w: the retry wrapper
\* calls the whole function again, or the exception goes to the future.
WorkerRaises(w, e) ==
    IF IsTransient(e) /\ ~RetryGivesUp(wattempt[w])
    THEN /\ wattempt' = [wattempt EXCEPT ![w] = @ + 1]
         /\ wpc' = [wpc EXCEPT ![w] = "run"]
         /\ UNCHANGED werr
    ELSE /\ wpc' = [wpc EXCEPT ![w] = "failed"]
         /\ werr' = [werr EXCEPT ![w] = e]
         /\ wattempt' = [wattempt EXCEPT ![w] = 0]

\* run_test_client_only up to containers.run of run_test: the environment is
\* merged, a container of the client's name is force-removed, the client
\* container is started.
WorkerStartsClient(w) ==
    /\ wpc[w] = "run"
    /\ test_json' = EnvUpdated(test_json, extra_env)
    /\ \E o \in {"ok", "RequestException", "APIError"} :
        /\ Inject(o # "ok")
        /\ IF o = "ok"
           THEN /\ removedBy' = removedBy \cup { <<w, c[2]>> : c \in Named(wname[w]) }
                /\ live' = (live \ Named(wname[w])) \cup {<<wname[w], w>>}
                /\ wpc' = [wpc EXCEPT ![w] = "w_client"]
                /\ UNCHANGED <<wattempt, werr>>
           ELSE /\ WorkerRaises(w, o)
                /\ UNCHANGED <<live, removedBy>>
    /\ UNCHANGED <<cfgVars, engVars, notFanVars>>
    /\ UNCHANGED <<max_workers, wname>>
    /\ UNCHANGED <<pc, iter, attempt, idx, steps, error, launchCalls, cleanupCalls,
                   clientRuns, exit_code, delivered, exported>>
    /\ UNCHANGED <<wCalls, wProduced, wMissing, artefact, extra_env>>

\* run_test from test_container.wait() on, then the client-log upload: the
\* client has written its artefact into the mounted volume or has not.
WorkerClientExits(w) ==
    /\ wpc[w] = "w_client"
    /\ \E made \in BOOLEAN :
        /\ ~artefact_paths => ~made
        /\ wProduced' = [wProduced EXCEPT ![w] = IF made THEN "yes" ELSE "no"]
        /\ artefact' = (artefact \/ made)
    /\ live' = live \ {<<wname[w], w>>}
    /\ wCalls' = IF s3_uploader THEN [wCalls EXCEPT ![w].upload = @ + 1] ELSE wCalls
    /\ wpc' = [wpc EXCEPT ![w] = IF artefact_paths THEN "w_probe" ELSE "w_export"]
    /\ UNCHANGED <<cfgVars, engVars, notFanVars>>
    /\ UNCHANGED <<max_workers, wname, wattempt, werr>>
    /\ UNCHANGED <<pc, iter, attempt, idx, steps, error, launchCalls, cleanupCalls,
                   clientRuns, exit_code, delivered, exported, faults, sinkFaults>>
    /\ UNCHANGED <<wMissing, removedBy, test_json, extra_env>>

\* check_artefacts_with_container: an unnamed probe container tests the
\* artefact paths in the mounted volumes.
WorkerProbes(w) ==
    /\ wpc[w] = "w_probe"
    /\ wCalls' = [wCalls EXCEPT ![w].probe = @ + 1]
    /\ \E o \in {"ok", "RequestException", "APIError"} :
        /\ Inject(o # "ok")
        /\ IF o = "ok"
           THEN /\ wMissing' = [wMissing EXCEPT ![w] = IF artefact THEN "no" ELSE "yes"]
                /\ wpc' = [wpc EXCEPT ![w] = "w_cleanup"]
                /\ UNCHANGED <<wattempt, werr>>
           ELSE /\ WorkerRaises(w, o)
                /\ UNCHANGED wMissing
    /\ UNCHANGED <<cfgVars, engVars, notFanVars>>
    /\ UNCHANGED <<max_workers, wname>>
    /\ UNCHANGED <<pc, iter, attempt, idx, steps, error, launchCalls, cleanupCalls,
                   clientRuns, exit_code, delivered, exported>>
    /\ UNCHANGED <<wProduced, artefact, live, removedBy, test_json, extra_env>>

\* cleanup_artefacts_with_container up to containers.run: every container
\* named cleanup-all-artefacts is force-removed, then one is started.
WorkerStartsCleanup(w) ==
    /\ wpc[w] = "w_cleanup"
    /\ \E ok \in BOOLEAN :
        /\ Inject(~ok)
        /\ IF ok
           THEN /\ removedBy' = removedBy \cup
                        { <<w, c[2]>> : c \in Named(CleanupContainerName) }
                /\ live' = (live \ Named(CleanupContainerName))
                                \cup {<<CleanupContainerName, w>>}
                /\ wpc' = [wpc EXCEPT ![w] = "w_cleaning"]
           ELSE /\ wpc' = [wpc EXCEPT ![w] = "w_export"]
                /\ UNCHANGED <<live, removedBy>>
    /\ UNCHANGED <<cfgVars, engVars, notFanVars>>
    /\ UNCHANGED <<max_workers, wname, wattempt, werr>>
    /\ UNCHANGED <<pc, iter, attempt, idx, steps, error, launchCalls, cleanupCalls,
                   clientRuns, exit_code, delivered, exported>>
    /\ UNCHANGED <<wCalls, wProduced, wMissing, artefact, test_json, extra_env>>

\* containers.run(..., remove=True, detach=False) returns: the rm -f commands
\* have run; if the container was force-removed meanwhile they may or may not
\* have run and the error is logged.
WorkerCleanupEnds(w) ==
    /\ wpc[w] = "w_cleaning"
    /\ IF <<CleanupContainerName, w>> \in live
       THEN artefact' = FALSE
       ELSE artefact' \in {artefact, FALSE}
    /\ live' = live \ {<<CleanupContainerName, w>>}
    /\ wpc' = [wpc EXCEPT ![w] = "w_export"]
    /\ UNCHANGED <<cfgVars, engVars, notFanVars>>
    /\ UNCHANGED <<max_workers, wname, wattempt, werr>>
    /\ UNCHANGED <<pc, iter, attempt, idx, steps, error, launchCalls, cleanupCalls,
                   clientRuns, exit_code, delivered, exported, faults, sinkFaults>>
    /\ UNCHANGED <<wCalls, wProduced, wMissing, removedBy, test_json, extra_env>>

\* if opensearch_logger: opensearch_logger.export_metadata(...); the function returns.
WorkerExports(w) ==
    /\ wpc[w] = "w_export"
    /\ wCalls' = IF opensearch_logger THEN [wCalls EXCEPT ![w].export = @ + 1] ELSE wCalls
    /\ wpc' = [wpc EXCEPT ![w] = "done"]
    /\ wattempt' = [wattempt EXCEPT ![w] = 0]
    /\ UNCHANGED <<cfgVars, engVars, notFanVars>>
    /\ UNCHANGED <<max_workers, wname, werr>>
    /\ UNCHANGED <<pc, iter, attempt, idx, steps, error, launchCalls, cleanupCalls,
                   clientRuns, exit_code, delivered, exported, faults, sinkFaults>>
    /\ UNCHANGED <<wProduced, wMissing, artefact, live, removedBy, test_json, extra_env>>

NextWorkers ==
    \/ AttachRunners
    \/ Submit
    \/ \E w \in Workers : WorkerStartsClient(w)
    \/ \E w \in Workers : WorkerClientExits(w)
    \/ \E w \in Workers : WorkerProbes(w)
    \/ \E w \in Workers : WorkerStartsCleanup(w)
    \/ \E w \in Workers : WorkerCleanupEnds(w)
    \/ \E w \in Workers : WorkerExports(w)

SpecWorkers == InitWorkers /\ [][NextWorkers]_vars

----------------------------------------------------------------------------
\* Properties of the retry wrapper (SpecRetry).

Min(a, b) == IF a < b THEN a ELSE b
ScriptEndsIn(f) == rScript # <<>> /\ rScript[Len(rScript)] = f
\* Transient errors the operation raises before its final outcome.
LeadingFailures == Len(rScript) - 1
RetryOver == rState \in {"returned", "raised"}

\* C3: for an operation that raises a transient error k times and then
\* succeeds, the wrapper with attempt limit n = MAX_RETRIES returns the result
\* iff k < n, invokes the operation exactly min(k+1, n) times, and on
\* exhaustion re-raises the error of the last attempt.
C3_RetryUntilSuccessOrExhaustion ==
    (RetryOver /\ ScriptEndsIn("result")) =>
        /\ (rState = "returned") <=> (LeadingFailures < MAX_RETRIES)
        /\ rCalls = Min(LeadingFailures + 1, MAX_RETRIES)
        /\ rState = "returned" => (rLast = "result" /\ rError = "none")
        /\ rState = "raised" =>
              (rError = rScript[MAX_RETRIES] /\ rError = rLast /\ IsTransient(rError))

\* The wrapper returned on its last allowed attempt, after MAX_RETRIES - 1 failures.
C3_Witness ==
    /\ rState = "returned"
    /\ ScriptEndsIn("result")
    /\ LeadingFailures = MAX_RETRIES - 1
    /\ rCalls = MAX_RETRIES

NonTransientErrors == FinalOutcomes \ {"result"}

\* C4: when the wrapped operation raises an error outside the transient class,
\* the wrapper does not retry it and sleeps no backoff for it: the error leaves
\* the wrapper unchanged at once; raised by the first invocation, the operation
\* was invoked exactly once and no sleep was performed.
C4_NonTransientPropagatesAtOnce ==
    (rLast \in NonTransientErrors) =>
        /\ rState = "raised"
        /\ rError = rLast
        /\ rCalls = Len(rScript)
        /\ rSleeps = rCalls - 1
        /\ Len(rScript) = 1 => (rCalls = 1 /\ rSleeps = 0)

\* The first invocation raised a non-transient error.
C4_Witness ==
    /\ rState = "raised"
    /\ Len(rScript) = 1
    /\ rError \in NonTransientErrors
    /\ rCalls = 1
    /\ rSleeps = 0

----------------------------------------------------------------------------
\* Properties of the fan-out path (Spec).

AllWorkers == 0..(parallel_repeats - 1)
FanoutStarted == Fanout /\ Submitted # {}

\* C1: on the fan-out path cleanup_servers is invoked exactly once per test,
\* and only after every one of the N workers has finished, successfully or by
\* raising an error.
C1_CleanupOnceAfterAllWorkers ==
    Fanout =>
        /\ cleanupCalls <= 1
        /\ cleanupCalls = 1 => (Submitted = AllWorkers /\ Finished = AllWorkers)
        /\ FanoutStarted => pc # "raised"
        /\ (FanoutStarted /\ pc \in {"cleanup", "done"}) => cleanupCalls = 1

\* The test is over, one worker succeeded and one raised, servers cleaned once.
C1_Witness ==
    /\ Fanout
    /\ pc = "done"
    /\ cleanupCalls = 1
    /\ \E w \in AllWorkers : wpc[w] = "failed"
    /\ \E w \in AllWorkers : wpc[w] = "done"

\* C5: on the fan-out path, while at least one worker has not finished, no
\* stop and no remove has been issued against a server container of the test.
C5_ServersUntouchedWhileWorkersRun ==
    (Fanout /\ Finished # AllWorkers) =>
        \A sl \in created : engine[sl].stops = 0 /\ engine[sl].removes = 0

\* A failure is recorded in the failing worker's future only, a running worker
\* can always go on, the controller never raises once workers are submitted,
\* and it passes the join only when every one of the N workers has ended.
WorkerFailureContained ==
    Fanout =>
        /\ \A w \in Workers : (wpc[w] = "failed") <=> (werr[w] # "none")
        /\ \A w \in Workers : wpc[w] = "run" => ENABLED WAttempt(w)
        /\ FanoutStarted => (pc # "raised" /\ error = "none")
        /\ pc \in {"cleanup", "done"} /\ servers # <<>> => Finished = AllWorkers

\* A step in which one worker ends leaves every other worker as it was.
SiblingsUntouched ==
    \A w, v \in Workers :
      (w # v /\ wpc'[w] # wpc[w] /\ wpc[w] = "run")
          => (wpc'[v] = wpc[v] /\ wattempt'[v] = wattempt[v] /\ werr'[v] = werr[v])

\* C6: an error raised by one worker (after its retries) is caught by the
\* controller and neither cancels, stops nor blocks a sibling worker; every
\* one of the N submitted workers ends by its own outcome before the
\* controller goes on.
C6_WorkerFailureIsolated ==
    []WorkerFailureContained /\ [][SiblingsUntouched]_vars

\* One worker has failed with a non-transient error while a sibling still runs.
C6_Witness ==
    /\ pc = "join"
    /\ \E w, v \in AllWorkers :
          /\ wpc[w] = "failed" /\ werr[w] \in FatalErrors
          /\ wpc[v] = "run" /\ wattempt[v] > 1

\* The names a client of worker w can carry: its index and any uuid.
IndexedClientNames ==
    [w \in Workers |->
        { ClientName(ImageVersion, ClientSuffix(w, u)) : u \in UUIDS }]

\* C7: for parallel_repeats = N > 1 the server set is launched exactly once,
\* exactly N client tasks are submitted to a pool of exactly N workers, and the
\* client container names are pairwise distinct, each carrying its worker's index.
C7_OneLaunchNDistinctClients ==
    Fanout =>
        /\ launchCalls <= 1
        /\ Submitted \subseteq AllWorkers
        /\ \A w, v \in Submitted : w # v => wname[w] # wname[v]
        /\ \A w \in Submitted : wname[w] \in IndexedClientNames[w]
        /\ FanoutStarted => (launchCalls = 1 /\ max_workers = parallel_repeats)
        /\ (pc \in {"join", "cleanup"} \/ (pc = "done" /\ servers # <<>>))
              => Submitted = AllWorkers

\* All N tasks are submitted and two of them drew the same uuid.
C7_Witness ==
    /\ Fanout
    /\ pc = "join"
    /\ parallel_repeats = MaxParallel
    /\ Cardinality(Submitted) = parallel_repeats
    /\ launchCalls = 1
    /\ wname[0] = ClientName(ImageVersion, ClientSuffix(0, FirstUuid))
    /\ wname[1] = ClientName(ImageVersion, ClientSuffix(1, FirstUuid))

----------------------------------------------------------------------------
\* Properties of the sequential path (Spec).

IterationOver == ~Fanout /\ pc \in {"iter_done", "iter_abandoned", "raised"}

\* C2: every server container launched for a test iteration has been stopped
\* and removed exactly once when the iteration is over, on every path.
C2_ServersReleasedExactlyOnce ==
    IterationOver =>
        \A sl \in created :
            /\ engine[sl].st = "absent"
            /\ engine[sl].stops = 1
            /\ engine[sl].removes = 1

StepOrder == <<"launch", "client", "artefacts", "cleanup", "export">>
IsPrefix(s, t) == Len(s) <= Len(t) /\ s = SubSeq(t, 1, Len(s))
\* The step the controller is in at each position inside an iteration.
StepAt ==
    [p \in {"launch", "client", "upload", "artefacts", "cleanup", "export", "iter_done"} |->
        CASE p = "launch" -> "launch"
          [] p \in {"client", "upload"} -> "client"
          [] p = "artefacts" -> "artefacts"
          [] p = "cleanup" -> "cleanup"
          [] OTHER -> "export"]

\* C8: within one sequential iteration that does not fail the steps are
\* launch, client execution, artefact check, server cleanup, metadata export,
\* in this order and once each; the running step is the last one started.
C8_StepsInOrder ==
    ~Fanout =>
        /\ IsPrefix(steps, StepOrder)
        /\ pc \in DOMAIN StepAt => (steps # <<>> /\ steps[Len(steps)] = StepAt[pc])
        /\ pc = "iter_done" =>
              (steps = StepOrder /\ clientRuns = 1 /\ cleanupCalls = 1)

\* An iteration went through all five steps without a failure.
C8_Witness ==
    /\ ~Fanout
    /\ pc = "iter_done"
    /\ faults = 0
    /\ steps = StepOrder

NoFailure == faults = 0 /\ pc # "raised"
AllAbsent == \A sl \in DOMAIN engine : engine[sl].st = "absent"

C10_OneRecordPerIteration ==
    (~Fanout /\ opensearch_logger /\ faults = 0) =>
        /\ (clientRuns = 1 /\ pc \in {"iter_done", "raised", "done"}) => delivered = 1
        /\ pc \in {"launch", "client", "upload", "artefacts", "cleanup"} => delivered = 0

----------------------------------------------------------------------------
\* Error handling of one test (Spec).

StepStarted(step) == \E i \in DOMAIN steps : steps[i] = step
TestOrIterationOver == pc \in {"iter_done", "iter_abandoned", "raised", "done"}

\* C11: with artefact paths declared and a client that ran to a terminal state
\* with a non-zero exit code, the client is not run again, the iteration goes
\* through artefact check, server cleanup and export, and the exported record
\* carries that exit code.
C11_NonZeroExitCodeCarriedThrough ==
    (~Fanout /\ artefact_paths /\ exit_code # 0 /\ faults = 0) =>
        /\ clientRuns = 1
        /\ TestOrIterationOver =>
              /\ steps = StepOrder
              /\ opensearch_logger => exported = <<Metadata(exit_code)>>

\* C12: once the artefact check of an iteration has been started, the
\* iteration does not end before server cleanup and metadata export have been
\* performed, also when the artefact check fails with an error.
C12_CleanupAndExportAfterArtefactError ==
    (~Fanout /\ StepStarted("artefacts") /\ TestOrIterationOver) =>
        (StepStarted("cleanup") /\ StepStarted("export") /\ cleanupCalls = 1)

\* C13: when the only failures of a run are failures of a sink (client-log
\* upload, server-log upload, metadata export), every server container that
\* was launched is stopped and removed when the iteration or test is over.
C13_SinkFailureNeverBlocksCleanup ==
    (TestOrIterationOver /\ sinkFaults > 0 /\ faults = sinkFaults) =>
        \A sl \in created : engine[sl].st = "absent"

LaunchAbandoned == ~Fanout /\ pc = "iter_abandoned" /\ servers # <<>>

\* What holds of an iteration abandoned after the last launch attempt.
AbandonedQuietly ==
    /\ (~Fanout /\ pc = "launch") => (launchCalls = attempt /\ attempt <= MAX_SERVER_RETRIES)
    /\ LaunchAbandoned =>
          /\ launchCalls = MAX_SERVER_RETRIES
          /\ faults >= MAX_SERVER_RETRIES
          /\ steps = <<"launch">>
          /\ clientRuns = 0
          /\ delivered = 0 /\ exported = <<>>
          /\ error = "none"
          /\ ENABLED NextIteration

\* The step after an abandoned iteration begins the next one, if there is one.
NextIterationStarts ==
    LaunchAbandoned =>
        IF iter < repeat THEN pc' = "iter_begin" /\ iter' = iter + 1
                         ELSE pc' = "done"

\* C16: on the sequential path a launch that fails with a transient error on
\* all MAX_SERVER_RETRIES attempts abandons the iteration: no client is run,
\* no record is exported, no error reaches the caller, and the next iteration
\* (if any) starts.
C16_LaunchExhaustionAbandonsIteration ==
    []AbandonedQuietly /\ [][NextIterationStarts]_vars

\* The first iteration of several has been abandoned after three launch attempts.
C16_Witness ==
    /\ LaunchAbandoned
    /\ iter < repeat
    /\ launchCalls = MAX_SERVER_RETRIES
    /\ Len(servers) = MaxServers

\* The launch of the server set ended because of a transient error.
LaunchEndedOnTransient ==
    \/ LaunchAbandoned
    \/ Fanout /\ pc = "raised" /\ Submitted = {} /\ IsTransient(error)

\* C17: on both paths a transient error during the launch of the server set
\* leads to a new attempt of the whole launch, up to the attempt limit.
C17_LaunchRetriedOnBothPaths ==
    LaunchEndedOnTransient => launchCalls = MAX_SERVER_RETRIES

----------------------------------------------------------------------------
\* Properties of a folder run (SpecFolder).

FolderOver == pc \in {"f_done", "raised"}
TestFileIndices == { i \in DOMAIN fFiles : fFiles[i].json }
AllTestFilesRan == \A i \in TestFileIndices : i \in fRan

\* C14: in a folder run a test that fails while it runs (client retries
\* exhausted, readiness probe timeout, any other error) does not keep the
\* remaining test files from being run.
C14_FolderIsolatesTestFailure ==
    (FolderOver /\ ~opensearch_logger /\ \A i \in TestFileIndices : fFiles[i].test_command)
        => AllTestFilesRan

\* C15: in a folder run with a healthy environment a test document without
\* test_command does not keep the remaining test files from being run.
C15_FolderIsolatesMissingTestCommand ==
    (FolderOver /\ ~opensearch_logger /\ \A i \in TestFileIndices : fFiles[i].env = "healthy")
        => AllTestFilesRan

----------------------------------------------------------------------------
\* Properties of launch_server and the readiness probe (SpecLaunch).

Probing == pc = "l_probe"
\* The probe of the last launch_server call ran and ended by itself.
ProbeEnded == pAttempts > 0 /\ pc \in {"l_returned", "raised"} /\ error # "OSError"
LaunchConfig == BuildServerConfig(lConfig)
LaunchedSlot == Slot(servers[1])

\* C18: for an endpoint that first accepts connections pReadyAt seconds after
\* the probe starts, the probe returns iff pReadyAt < timeout; it makes at most
\* `timeout` connection attempts, the k-th at second k-1, and raises the
\* not-ready error once all of them have failed.
C18_ProbeSucceedsIffReadyInTime ==
    /\ pAttempts <= pTimeout
    /\ Probing => pNow = pAttempts
    /\ ProbeEnded => ((pc = "l_returned") <=> (pReadyAt < pTimeout))
    /\ (ProbeEnded /\ pc = "raised") => (error = "RuntimeError" /\ pAttempts = pTimeout)

\* C19: launch_server probes iff the launch configuration is not the sentinel:
\* for the sentinel no connection attempt is made, for any other configuration
\* launch_server does not return before a connection attempt has succeeded.
C19_ProbeIffNotSentinel ==
    /\ Probing => ~IsDefault(LaunchConfig)
    /\ pc = "l_returned" =>
          IF IsDefault(LaunchConfig)
          THEN pAttempts = 0
          ELSE pAttempts > 0 /\ pNow >= pReadyAt

\* C20: with a healthy engine, after launch_server has been called once or
\* again for the same server, there is exactly one container of the expected
\* name, it is running, and no name conflict or other engine error came up: a
\* container of that name left from before was removed first, a missing one
\* was no error.
C20_LaunchIsIdempotent ==
    (lCalls >= 1 /\ faults = 0) =>
        /\ engine[LaunchedSlot].st = "running"
        /\ { sl \in DOMAIN engine : engine[sl].st # "absent" } = {LaunchedSlot}
        /\ created = {LaunchedSlot}
        /\ lConflicts = 0
        /\ error \in {"none", "RuntimeError"}

\* launch_server has returned from its second call for the same server.
C20_Witness ==
    /\ lCalls = 2
    /\ pc = "l_returned"
    /\ faults = 0
    /\ ~IsDefault(LaunchConfig)
    /\ engine[LaunchedSlot].st = "running"

----------------------------------------------------------------------------
\* Properties of cleanup_servers (SpecCleanup).
OpsOf(i, op) == { k \in 1..Len(cOps) : cOps[k].i = i /\ cOps[k].op = op }
CleanupOver == pc \in {"c_done", "c_raised"}

\* C21: for each server container the calls of cleanup are ordered stop (when
\* it was found running), then logs, then remove: every remove comes after a
\* logs call for the same runner, that logs call after a stop if the container
\* was found running, stop is called only on a container found running, and
\* remove never meets a running container.
C21_StopLogsRemoveInOrder ==
    /\ \A k \in 1..Len(cOps) :
        LET i == cOps[k].i
        IN /\ cOps[k].op = "remove" =>
                /\ cOps[k].st # "running"
                /\ \E j \in OpsOf(i, "logs") : j < k
           /\ cOps[k].op = "logs" =>
                (i \in cRunning => \E h \in OpsOf(i, "stop") : h < k)
           /\ cOps[k].op = "stop" => i \in cRunning
    /\ \A i \in cRunning : \E g \in OpsOf(i, "get") : cOps[g].st = "running"

\* a container found running has been stopped, read and removed
C21_Witness ==
    \E i \in cRunning :
        /\ OpsOf(i, "stop") # {}
        /\ OpsOf(i, "logs") # {}
        /\ OpsOf(i, "remove") # {}
        /\ engine[Slot(servers[i])].st = "absent"

\* C22: cleanup_servers never raises, and when it is over it has attempted
\* every runner of the set, whatever failed on the others.
C22_CleanupNeverRaisesAndCoversAll ==
    /\ pc # "c_raised"
    /\ error = "none"
    /\ pc = "c_done" => \A i \in 1..Len(servers) : OpsOf(i, "get") # {}

\* cleanup of the first server failed and the second was still cleaned
C22_Witness ==
    /\ pc = "c_done"
    /\ Len(servers) = 2
    /\ OpsOf(1, "get") # {}
    /\ OpsOf(1, "remove") = {}
    /\ faults > 0
    /\ OpsOf(2, "remove") # {}
    /\ engine[Slot(servers[2])].st = "absent"

----------------------------------------------------------------------------
\* Properties of the removal steps (SpecRemove).

\* C23: at every removal site a container that is already absent counts as
\* success: whatever sites met an absent container, no error has left the
\* function.
C23_AbsentContainerIsSuccess ==
    rmAbsentAt # {} => (pc # "raised" /\ error = "none")

----------------------------------------------------------------------------
\* Properties of the throughput extraction (SpecSpeed).
IsRate(d) == d.kind = "rate"
\* a completion line the progress-line strategy takes its token from
IsCompletion(d) ==
    /\ d.kind = "progress"
    /\ d.first = Str_100
    /\ d.cols >= 12
    /\ d.val.kind = "float"
    /\ d.unit \in Units
Last(ls) == ls[Len(ls)]
SameSpeed(a, b) == a.kind = b.kind /\ a.num * b.den = b.num * a.den

\* what the two strategies are to give for a text
ExpectedSpeed(ls) ==
    IF SelectSeq(ls, IsRate) # <<>>
    THEN LET d == Last(SelectSeq(ls, IsRate)) IN Normalize(d.val, d.unit)
    ELSE IF SelectSeq(ls, IsCompletion) # <<>>
    THEN LET d == Last(SelectSeq(ls, IsCompletion)) IN Normalize(d.val, d.unit)
    ELSE None

\* C24: the bracketed-rate strategy comes first and the progress-line strategy
\* only if the text has no bracketed rate; the last match of the winning
\* strategy gives the result, normalized to MB/s.
C24_LastMatchOfFirstStrategy ==
    transfer_speed # Pending => SameSpeed(transfer_speed, ExpectedSpeed(logLines))

SpeedPipelineOver == pc \in {"x_done", "raised"}

\* C25: the result is absent iff the text has neither a bracketed rate nor a
\* completion line, and absent and zero stay apart in the exported record:
\* once the client's result has gone through export with a metadata sink
\* configured, a measured throughput (zero included) is in the record as its
\* value and an absent one leaves the record without the field.
C25_AbsentIsNotZero ==
    /\ transfer_speed # Pending =>
        (transfer_speed = None <=>
            (SelectSeq(logLines, IsRate) = <<>> /\ SelectSeq(logLines, IsCompletion) = <<>>))
    /\ (opensearch_logger /\ SpeedPipelineOver /\ transfer_speed.kind \in {"float", "None"}) =>
        /\ Len(exported) = 1
        /\ transfer_speed.kind = "float" =>
                /\ DOMAIN exported[1] = {"transfer_speed_MBps"}
                /\ SameSpeed(exported[1]["transfer_speed_MBps"], transfer_speed)
        /\ transfer_speed = None => DOMAIN exported[1] = {}

----------------------------------------------------------------------------
\* Properties of substitute_path (SpecSubst).
RECURSIVE AllStrings(_)
\* the strings of a tree: values, map keys and list elements at any depth
AllStrings(tr) ==
    CASE tr.t = "str" -> {tr.v}
      [] tr.t = "list" -> UNION { AllStrings(tr.v[i]) : i \in 1..Len(tr.v) }
      [] tr.t = "dict" -> UNION { {tr.v[i].k} \cup AllStrings(tr.v[i].x) : i \in 1..Len(tr.v) }
      [] OTHER -> {}

\* an occurrence of the token in the input string is still there
TokenSurvives(ts) ==
    \E i \in 1..(Len(ts) - Len(Token) + 1) :
        /\ Chars(SubSeq(ts, i, i + Len(Token) - 1)) = Token
        /\ ts[i].o > 0
        /\ \A k \in 0..(Len(Token) - 1) : ts[i + k].o = ts[i].o + k

HasToken(ts) ==
    \E i \in 1..(Len(ts) - Len(Token) + 1) : Chars(SubSeq(ts, i, i + Len(Token) - 1)) = Token

RECURSIVE LeavesKept(_, _)
\* the result has the input's shape and its non-string leaves
LeavesKept(in, out) ==
    CASE in.t = "str" -> out.t = "str"
      [] in.t = "list" ->
            /\ out.t = "list"
            /\ Len(out.v) = Len(in.v)
            /\ \A i \in 1..Len(in.v) : LeavesKept(in.v[i], out.v[i])
      [] in.t = "dict" ->
            /\ out.t = "dict"
            /\ \A j \in 1..Len(out.v) : \E i \in 1..Len(in.v) : LeavesKept(in.v[i].x, out.v[j].x)
      [] OTHER -> out.t = in.t /\ out.v = in.v

\* C26: after substitute_path no occurrence of TEST_PATH of the input is left
\* in any string value, map key or nested list element of the result, and
\* the leaves that are not strings are returned as they were.
C26_SubstitutionIsTotal ==
    pc = "s_done" =>
        /\ \A ts \in AllStrings(substituted) : ~TokenSurvives(ts)
        /\ LeavesKept(sValue, substituted)

\* a mapping whose key holds the token, over a list with a string that holds
\* the token twice and a leaf that is not a string
C26_Witness ==
    /\ pc = "s_done"
    /\ sValue.t = "dict"
    /\ Len(sValue.v) = 1
    /\ HasToken(sValue.v[1].k)
    /\ sValue.v[1].x = ListOf(<<StrLeaf(Token \o <<"/">> \o Token), OtherLeaf>>)
    /\ substituted.v[1].x.v[2] = OtherLeaf
    /\ ~HasToken(substituted.v[1].k)

RECURSIVE SameTree(_, _)
\* == of Python on two trees
SameTree(a, b) ==
    /\ a.t = b.t
    /\ CASE a.t = "str" -> Chars(a.v) = Chars(b.v)
         [] a.t = "list" ->
                /\ Len(a.v) = Len(b.v)
                /\ \A i \in 1..Len(a.v) : SameTree(a.v[i], b.v[i])
         [] a.t = "dict" ->
                /\ Len(a.v) = Len(b.v)
                /\ \A i \in 1..Len(a.v) : \E j \in 1..Len(b.v) :
                        /\ Chars(a.v[i].k) = Chars(b.v[j].k)
                        /\ SameTree(a.v[i].x, b.v[j].x)
         [] OTHER -> TRUE

\* C27: substituting twice gives what substituting once gives, for every
\* tree and every replacement value.
C27_SubstitutionIsIdempotent ==
    pc = "s_done" => SameTree(substitute_path(substituted, test_path), substituted)

----------------------------------------------------------------------------
\* Properties of container naming (SpecName).

\* C28: naming is deterministic and injective: two calls with the same
\* (base, version, host) give the same name, and two tuples that differ in
\* base, version or host never give the same name.
C28_NamingDeterministicAndInjective ==
    pc = "n_done" =>
        /\ genNames[1] = genNames[2]
        /\ genArgs[1] = genArgs[2] <=> genNames[1][1] = genNames[1][2]

----------------------------------------------------------------------------
\* Properties of main (SpecCred).
DistributionFailed == credChecked = "ok" /\ pc = "raised"
NothingStarted ==
    /\ launchCalls = 0
    /\ clientRuns = 0
    /\ \A sl \in TestSlots : engine[sl].st = "absent"

\* C29: if the credential check fails or the distribution of the credential
\* to a remote host fails, the process ends before any server container is
\* launched and before any test client is run; servers and clients run only
\* after a successful check and a distribution to every host.
C29_CredentialFailureAbortsBeforeTests ==
    /\ credChecked = "failed" => (pc = "m_exit" /\ NothingStarted)
    /\ DistributionFailed => NothingStarted
    /\ ~NothingStarted => (credChecked = "ok" /\ idx > Len(servers) /\ error = "none")

\* the distribution failed on the second host after the first was served
C29_Witness ==
    /\ DistributionFailed
    /\ idx = 2
    /\ error = "RuntimeError"

----------------------------------------------------------------------------
\* Properties of the artefact handling (SpecArtefacts).
ProbeReported == Len(steps) > 0 /\ ~(pc = "raised" /\ Len(steps) = 1)
ArtefactPipelineOver == pc \in {"a_done", "raised"}

\* C30: missing artefacts raise no error: when the probe reported a non-empty
\* set of missing paths, the iteration goes on through artefact cleanup,
\* server cleanup (sequential path) and export, and with a metadata sink
\* configured the exported record holds exactly that set.
C30_MissingArtefactsRecordedNotRaised ==
    (ProbeReported /\ missing_artefacts # {}) =>
        /\ error = "none"
        /\ ArtefactPipelineOver =>
            /\ steps = IF Fanout
                       THEN <<"check_artefacts", "cleanup_artefacts", "export">>
                       ELSE <<"check_artefacts", "cleanup_artefacts", "cleanup_servers", "export">>
            /\ opensearch_logger =>
                exported = <<ArtefactRecord(missing_artefacts)>>

\* C31: an error of the artefact cleanup never leaves
\* cleanup_artefacts_with_container: whenever the tail of an iteration has
\* raised, the step that raised was the probe or the export, never the
\* artefact cleanup, whatever made the cleanup container fail.
C31_ArtefactCleanupErrorsSwallowed ==
    pc = "raised" => steps[Len(steps)] \in {"check_artefacts", "export"}

\* A cleanup container failed (the probe had not, or the cleanup would not
\* have run) and the export step was reached all the same.
C31_Witness ==
    /\ faults = 1
    /\ Len(steps) >= 3
    /\ steps[2] = "cleanup_artefacts"
    /\ steps[Len(steps)] = "export"

\* C39: the artefact probe and the artefact cleanup run on the endpoint the
\* client container ran on, also when test_config gives the client a uri of
\* its own.
C39_ArtefactsOnClientEndpoint ==
    \A i \in DOMAIN artefactUris : artefactUris[i] = TestClientUri

----------------------------------------------------------------------------
\* Properties of the server-set launch (Spec).
\* launch_servers has just returned to its caller.
LaunchJustReturned ==
    \/ pc = "client" /\ attempt = 1 /\ clientRuns = 0
    \/ pc = "submit" /\ Submitted = {}

\* C34: when the launch of the server set returns and no engine call failed,
\* every server of the topology has a running container, also when two
\* servers share one engine endpoint.
C34_EveryServerRunningAfterLaunch ==
    (LaunchJustReturned /\ faults = 0) =>
        \A sl \in TestSlots : engine[sl].st = "running"

\* C35: on the sequential path the launch counts as successful only if a
\* container was started for every server: an engine-connectivity error while
\* a server container is created or started sends the launch loop into its
\* next attempt.
C35_ConnectivityErrorReachesLaunchRetry ==
    (LaunchJustReturned /\ ~Fanout) => created = TestSlots

----------------------------------------------------------------------------
\* Properties of the fan-out workers (SpecWorkers).
\* C32: the missing set a worker reports depends only on its own client run:
\* under every interleaving with the sibling workers, the probe of a worker
\* whose client wrote the artefact does not report it missing.
C32_ArtefactCheckIndependentOfSiblings ==
    \A w \in Workers :
        (wProduced[w] = "yes" /\ wMissing[w] # "pending") => wMissing[w] = "no"

\* C33: the loaded test document is never written to: its servers carry no
\* key that was not loaded and its test_env holds the loaded names only.
C33_TestDocumentImmutable ==
    /\ ~test_json.runner_tuple
    /\ test_json.test_env \cap UNION ExtraEnvs = {}

\* C36: a retry of a worker repeats the client invocation only: a worker
\* uploads its client log, probes the artefacts and exports a record at most
\* once each.
C36_WorkerRetryRepeatsClientOnly ==
    \A w \in Workers :
        /\ wCalls[w].upload <= 1
        /\ wCalls[w].probe <= 1
        /\ wCalls[w].export <= 1

\* C38: no worker force-removes a container that a sibling worker created.
C38_NoWorkerRemovesSiblingContainer ==
    \A r \in removedBy : r[1] = r[2]

----------------------------------------------------------------------------
\* Properties of the branch in run_single_test (SpecBranch).
FanoutRequested == parallel_repeats > 1 /\ container_suffix = <<>>

\* What only the fan-out branch does, and what only the sequential one does.
FanoutSeen == pc \in {"par_begin", "submit", "join"} \/ max_workers > 0
SequentialSeen ==
    \/ pc \in {"iter_begin", "client", "upload", "artefacts", "export",
               "iter_done", "iter_abandoned"}
    \/ iter > 1
    \/ steps # <<>>

\* C37: the fan-out branch is taken iff parallel_repeats > 1 and there is no
\* container suffix, never both branches in one test, and for parallel_repeats
\* absent, 0 or 1 the sequential branch runs `repeat` iterations (here: when
\* no collaborator fails).
C37_ExactlyOneBranch ==
    /\ FanoutSeen => FanoutRequested
    /\ SequentialSeen => ~FanoutRequested
    /\ (~FanoutRequested /\ faults = 0 /\ pc \in {"done", "raised"}) =>
            (pc = "done" /\ iter = repeat)

----------------------------------------------------------------------------
\* Properties of the loops (SpecTermination).
AttemptsBounded ==
    /\ pc = "launch" => (attempt <= MAX_SERVER_RETRIES /\ launchCalls <= MAX_SERVER_RETRIES)
    /\ pc = "client" => attempt <= MAX_RETRIES
    /\ launchCalls <= MAX_SERVER_RETRIES
    /\ \A w \in Workers : wattempt[w] <= MAX_RETRIES
    /\ pAttempts <= pTimeout

IterationTerminated == pc \in {"iter_done", "iter_abandoned", "done", "raised"}

\* C40: when every wait and engine call returns, each iteration terminates: a
\* sequential iteration makes at most 3 launch attempts and at most 3 client
\* attempts and ends, a readiness probe makes at most `timeout` connection
\* attempts and ends, and a fan-out test ends once its workers, with at most 3
\* attempts each, have finished.
C40_IterationsTerminate ==
    /\ []AttemptsBounded
    /\ (pc = "iter_begin" ~> IterationTerminated)
    /\ (pc = "par_begin" ~> pc \in {"done", "raised"})
    /\ (pc = "l_probe" ~> pc \in {"l_returned", "raised"})

\* A fan-out test has ended although one worker used up its three attempts.
C40_Witness ==
    /\ pc = "done"
    /\ max_workers > 1
    /\ \E w \in Submitted : werr[w] \in TransientErrors

====
